---- MODULE Spec2Model ----
(***************************************************************************)
(* Stats ingestion, aggregation and reversal engine of the Wallaby iRacing *)
(* League bot (src/bot.py), as a state machine.                            *)
(*                                                                         *)
(* Numbers.  The averages are Python floats while a handler runs; the      *)
(* stored averages, which the code rounds to 3 decimals, are integers in   *)
(* thousandths, and the career averages, rounded to 2 decimals, integers   *)
(* in hundredths.  Points, incidents and position changes of the payloads  *)
(* are whole numbers, which floats hold exactly.                           *)
(***************************************************************************)
EXTENDS Integers, Sequences, FiniteSets, TLC

VARIABLES
    seasons,   \* season directory name -> [file, drivers]: data/seasons/<s>/drivers.json
    uploads,   \* stored file name -> raw content: data/uploads/
    views,     \* live UploadSeasonSelectView objects: [filename, content, options]
    now,       \* the second, by tz_now(), of the last stored upload
    event,     \* the last operation that ran, its inputs and its outcome
    applied,   \* history: <<content, season>> of every ingestion that was saved
    pre,       \* history: the stores before the last saved ingestion
    hist,      \* history: the races ingested one at a time, in their order
    ningest,   \* history: the number of ingestions saved so far
    loop,      \* the asyncio event loop: the handlers in flight, each at an await
    config,    \* config.json: current_season ("" while none is set), discord_links
    bot,       \* the client: its on_ready handler, whether ready was dispatched, the loops started
    backups,   \* the backups directory: its zip files and .last_backup.txt
    clock      \* the wall clock, in seconds

vars == <<seasons, uploads, views, now, event, applied, pre, hist, ningest, loop, config,
         bot, backups, clock>>

(***************************************************************************)
(* Bounds of the model.                                                    *)
(***************************************************************************)
MaxViews == 2      \* upload views alive at once
MaxIngest == 2     \* ingestion callbacks that reach the season store
MaxCareerRaces == 8 \* payloads ingested in the career specification
MaxSeasonRaces == 3 \* payloads ingested into one season of the career specification
MaxAvgRaces == 7   \* payloads ingested in the running-average specification
MaxRankRaces == 3  \* payloads ingested in the leaderboard specification
MaxTasks == 3      \* handlers dispatched in the event-loop specification
MaxOrderRaces == 4 \* payloads ingested in the ingestion-order specification
MaxFoldRaces == 5  \* payloads ingested in the fold-agreement specification

(***************************************************************************)
(* Python values.                                                          *)
(***************************************************************************)
None == -999

MAX_NAME_LEN == 100

\* str.upper() on the session labels that occur in the payloads
Upper(s) ==
    CASE s \in {"RACE", "Race", "race"} -> "RACE"
      [] s \in {"QUALIFY", "Qualify"} -> "QUALIFY"
      [] OTHER -> s

\* str.strip() on the display names that occur in the payloads
Strip(s) ==
    CASE s = "Alice " -> "Alice"
      [] s = " " -> ""
      [] OTHER -> s

Max2(a, b) == IF a >= b THEN a ELSE b

(***************************************************************************)
(* Python floats: IEEE-754 binary64.  A non-negative float v is held as    *)
(* the natural number v * 2^72 in four limbs <<a1, a2, a3, a4>>, the first *)
(* three of 24 bits: v * 2^72 = a1 + a2 * 2^24 + a3 * 2^48 + a4 * 2^72.    *)
(* The floats of the model are 0 or lie between 2^-19 and 2^10, so that    *)
(* each has its 53 significant bits above 2^-72.  Every operation rounds   *)
(* the exact result to 53 significant bits, ties to even.                  *)
(***************************************************************************)
LIMB_BITS == 24
MANT_BITS == 53

\* 2^n for n <= 30
Pow2(n) == 2 ^ n

LIMB == Pow2(LIMB_BITS)

\* a + b
BigAdd(a, b) ==
    LET s1 == a[1] + b[1]
        s2 == a[2] + b[2] + s1 \div LIMB
        s3 == a[3] + b[3] + s2 \div LIMB
    IN  <<s1 % LIMB, s2 % LIMB, s3 % LIMB, a[4] + b[4] + s3 \div LIMB>>

\* a * n for a natural n <= 100
BigMul(a, n) ==
    LET s1 == a[1] * n
        s2 == a[2] * n + s1 \div LIMB
        s3 == a[3] * n + s2 \div LIMB
    IN  <<s1 % LIMB, s2 % LIMB, s3 % LIMB, a[4] * n + s3 \div LIMB>>

\* quotient and remainder of a by a natural 0 < n <= 100
BigDiv(a, n) ==
    LET c3 == (a[4] % n) * LIMB + a[3]
        c2 == (c3 % n) * LIMB + a[2]
        c1 == (c2 % n) * LIMB + a[1]
    IN  [q |-> <<c1 \div n, c2 \div n, c3 \div n, a[4] \div n>>, r |-> c1 % n]

\* the number of significant bits of v < 2^30, and of a
BitsOf(v) == CHOOSE b \in 0..30 : v < Pow2(b) /\ (b = 0 \/ Pow2(b - 1) <= v)

BitLen(a) ==
    IF a[4] > 0 THEN 3 * LIMB_BITS + BitsOf(a[4])
    ELSE IF a[3] > 0 THEN 2 * LIMB_BITS + BitsOf(a[3])
    ELSE IF a[2] > 0 THEN LIMB_BITS + BitsOf(a[2])
    ELSE BitsOf(a[1])

\* the k lowest bits of a, bit k of a, a without its k lowest bits, and 2^k,
\* for k <= 30
LowBits(a, k) ==
    IF k <= LIMB_BITS THEN a[1] % Pow2(k)
    ELSE a[1] + (a[2] % Pow2(k - LIMB_BITS)) * LIMB

Bit(a, k) ==
    IF k < LIMB_BITS THEN (a[1] \div Pow2(k)) % 2
    ELSE (a[2] \div Pow2(k - LIMB_BITS)) % 2

ClearLow(a, k) ==
    IF k <= LIMB_BITS THEN <<a[1] - (a[1] % Pow2(k)), a[2], a[3], a[4]>>
    ELSE <<0, a[2] - (a[2] % Pow2(k - LIMB_BITS)), a[3], a[4]>>

UnitAt(k) ==
    IF k < LIMB_BITS THEN <<Pow2(k), 0, 0, 0>> ELSE <<0, Pow2(k - LIMB_BITS), 0, 0>>

\* a (plus a fraction of its last unit when `inexact`) rounded to a multiple of
\* 2^k, ties to even
RoundAt(a, k, inexact) ==
    IF k <= 0 THEN a
    ELSE IF \/ LowBits(a, k) > Pow2(k - 1)
            \/ LowBits(a, k) = Pow2(k - 1) /\ (inexact \/ Bit(a, k) = 1)
         THEN BigAdd(ClearLow(a, k), UnitAt(k))
         ELSE ClearLow(a, k)

\* the float nearest to a (plus a fraction of its last unit when `inexact`):
\* a rounded to MANT_BITS significant bits
RoundToDouble(a, inexact) == RoundAt(a, BitLen(a) - MANT_BITS, inexact)

\* the float nearest to the quotient d = [q, r] of a division
RoundQuotient(d) == RoundToDouble(d.q, d.r # 0)

FloatZero == <<0, 0, 0, 0>>

\* float(n) of a natural n
FloatOfInt(n) == <<0, 0, 0, n>>

\* the float json.load reads from the decimal k / 10^digits
RECURSIVE DivPow10(_, _, _)
DivBy10(d, digits, inexact) == DivPow10(d.q, digits - 1, inexact \/ d.r # 0)

DivPow10(a, digits, inexact) ==
    IF digits = 0 THEN RoundToDouble(a, inexact)
    ELSE DivBy10(BigDiv(a, 10), digits, inexact)

FloatOfDecimal(k, digits) == DivPow10(FloatOfInt(k), digits, FALSE)

\* f * n, f + g and f / n of floats f, g and a natural n
FMul(f, n) == RoundToDouble(BigMul(f, n), FALSE)
FAdd(f, g) == RoundToDouble(BigAdd(f, g), FALSE)
FDiv(f, n) == RoundQuotient(BigDiv(f, n))

\* round(f, digits) as the integer number of 10^-digits: the exact value of f,
\* rounded half to even
RECURSIVE MulPow10(_, _)
MulPow10(a, digits) == IF digits = 0 THEN a ELSE MulPow10(BigMul(a, 10), digits - 1)

\* the integer nearest to p, half to even
RoundHalfEven(p) ==
    IF \/ p[3] > Pow2(LIMB_BITS - 1)
       \/ p[3] = Pow2(LIMB_BITS - 1) /\ (p[2] # 0 \/ p[1] # 0 \/ p[4] % 2 = 1)
    THEN p[4] + 1 ELSE p[4]

RoundDecimal(f, digits) == RoundHalfEven(MulPow10(f, digits))

\* round(safe_float(v), 3) of ingest_iracing_event, in thousandths
Round3(f) == RoundDecimal(f, 3)

\* round(safe_float(v), 2) of _aggregate_career, in hundredths
Round2(f) == RoundDecimal(f, 2)

\* the closure wavg(prev, add, rp, ra) of ingest_iracing_event and of
\* _aggregate_career: (prev * rp + add * ra) / tot if tot > 0 else 0.0
wavg(prev, add, rp, ra) ==
    IF rp + ra > 0 THEN FDiv(FAdd(FMul(prev, rp), FMul(add, ra)), rp + ra)
    ELSE FloatZero

(***************************************************************************)
(* Payloads: the JSON documents handed to /admin_upload.                   *)
(***************************************************************************)
Row(name, fp, sp, inc, pts, lc, ll, blt) ==
    [display_name |-> name, finish_position |-> fp, starting_position |-> sp,
     incidents |-> inc, champ_points |-> pts, laps_complete |-> lc,
     laps_lead |-> ll, best_lap_time |-> blt]

Session(label, rows) == [simsession_name |-> label, results |-> rows]

Payload(id, ok, sess) == [id |-> id, parsable |-> ok, sessions |-> sess]

\* the scenario of the specification: Alice wins from second, Bob second from pole
P_AB == Payload("ab", TRUE, <<Session("RACE",
          <<Row("Alice", 0, 1, 2, 25, 10, 8, 90), Row("Bob", 1, 0, 0, 18, 10, 2, 91)>>)>>)

\* no starting positions: Bob's pole comes from the QUALIFY session, Alice's
\* start from finish+5; the race label is lower case
P_QUAL == Payload("qual", TRUE,
          <<Session("QUALIFY", <<Row("Bob", 0, None, 0, 0, 2, 0, 88)>>),
            Session("race",
              <<Row("Alice", 0, None, 0, 20, 8, 8, 92), Row("Bob", 3, None, 4, 10, 8, 0, 93)>>)>>)

\* Bob did not finish: finish_position -1
P_DNF == Payload("dnf", TRUE, <<Session("RACE",
          <<Row("Alice", 1, 0, 1, 18, 6, 6, 95), Row("Bob", -1, 3, 6, 0, 2, 0, -1)>>)>>)

\* Alice is named by two rows (the second with trailing blank), one row is unnamed
P_DUP == Payload("dup", TRUE, <<Session("RACE",
          <<Row("Alice", 0, 0, 0, 25, 5, 5, 90), Row(" ", 1, 1, 0, 0, 5, 0, 80),
            Row("Alice ", 11, 11, 3, 1, 4, 0, 94)>>)>>)

\* the second row carries "best_lap_time": null
P_ROWERR == Payload("rowerr", TRUE, <<Session("RACE",
          <<Row("Alice", 0, 0, 0, 25, 5, 5, 90), Row("Bob", 1, 1, 0, 18, 5, 0, None)>>)>>)

\* no session is labelled RACE
P_NORACE == Payload("norace", TRUE,
          <<Session("QUALIFY", <<Row("Alice", 0, None, 0, 0, 2, 0, 88)>>),
            Session("PRACTICE", <<Row("Alice", 0, 0, 0, 0, 9, 9, 88)>>)>>)

\* bytes that json.loads rejects
P_GARBAGE == Payload("garbage", FALSE, <<>>)

\* two races of the same pair, with the places and the incident exchanged
P_R1 == Payload("r1", TRUE, <<Session("RACE",
          <<Row("Alice", 0, 1, 0, 25, 10, 8, 90), Row("Bob", 1, 0, 1, 18, 10, 2, 91)>>)>>)

P_R2 == Payload("r2", TRUE, <<Session("RACE",
          <<Row("Bob", 0, 1, 0, 25, 8, 5, 94), Row("Alice", 1, 0, 1, 18, 8, 3, 95)>>)>>)

\* a race Alice ran alone and finished f-th from the f-th place on the grid
FinishPayload(f) == Payload("finish", TRUE, <<Session("RACE",
          <<Row("Alice", f - 1, f - 1, 0, 0, 5, 0, 90)>>)>>)

\* three races of three drivers; Bob does not finish the second, Alice ends the
\* third outside the first ten
P_T1 == Payload("t1", TRUE, <<Session("RACE",
          <<Row("Alice", 0, 1, 2, 25, 10, 8, 90), Row("Bob", 1, 0, 0, 18, 10, 2, 91),
            Row("Carol", 2, 2, 4, 15, 9, 0, 92)>>)>>)

P_T2 == Payload("t2", TRUE, <<Session("RACE",
          <<Row("Carol", 0, 0, 0, 25, 8, 8, 89), Row("Alice", 1, 2, 1, 18, 8, 0, 90),
            Row("Bob", -1, 1, 6, 0, 3, 0, 95)>>)>>)

P_T3 == Payload("t3", TRUE, <<Session("RACE",
          <<Row("Bob", 0, 3, 1, 25, 6, 4, 93), Row("Carol", 1, 0, 1, 18, 6, 2, 94),
            Row("Alice", 10, 1, 3, 2, 5, 0, 96)>>)>>)

\* Bob is classified without finish and without place on the grid
P_NOFIN == Payload("nofin", TRUE, <<Session("RACE",
          <<Row("Alice", 0, 0, 0, 25, 7, 7, 90), Row("Bob", -1, None, 2, 0, 0, 0, -1)>>)>>)

\* both drivers set the same best lap
P_TIE == Payload("tie", TRUE, <<Session("RACE",
          <<Row("Bob", 0, 0, 0, 25, 9, 9, 90), Row("Alice", 1, 1, 0, 18, 9, 0, 90)>>)>>)

\* no row holds a lap time; the winner was classified with fewer laps than Bob
P_NOLAP == Payload("nolap", TRUE, <<Session("RACE",
          <<Row("Alice", 0, 0, 0, 25, 5, 3, -1), Row("Bob", 1, 1, 0, 18, 7, 4, 0)>>)>>)

Payloads ==
    {P_AB, P_QUAL, P_DNF, P_DUP, P_ROWERR, P_NORACE, P_GARBAGE, P_R1, P_R2, P_T1, P_T2, P_T3,
     P_NOFIN, P_TIE, P_NOLAP}

Names == {"Alice", "Bob"}

(***************************************************************************)
(* Driver records and season stores.                                       *)
(***************************************************************************)
\* the default record of drivers_map.setdefault(name, {...})
NewDriver ==
    [races |-> 0, wins |-> 0, podiums |-> 0, top10s |-> 0, poles |-> 0, points |-> 0,
     avg_incidents |-> FloatZero, avg_start |-> FloatZero, avg_finish |-> FloatZero,
     rp |-> 0, laps_complete |-> 0, laps_lead |-> 0, fastest_laps |-> 0,
     position_change |-> 0, race_distances |-> <<>>]

\* a stored record as read back: the stored averages are thousandths
Loaded(d) ==
    [d EXCEPT !.avg_incidents = FloatOfDecimal(d.avg_incidents, 3),
              !.avg_start = FloatOfDecimal(d.avg_start, 3),
              !.avg_finish = FloatOfDecimal(d.avg_finish, 3)]

\* the closing loop of ingest_iracing_event: round the three averages
Rounded(d) ==
    [d EXCEPT !.avg_incidents = Round3(d.avg_incidents),
              !.avg_start = Round3(d.avg_start),
              !.avg_finish = Round3(d.avg_finish)]

EmptyMap == [n \in {} |-> NewDriver]

\* a season directory without drivers.json, with a readable one, with a truncated one
NoFile == [file |-> "absent", drivers |-> EmptyMap]
Stored(dm) == [file |-> "ok", drivers |-> dm]
Truncated == [file |-> "corrupt", drivers |-> EmptyMap]

\* list_seasons(): the season directories
list_seasons == DOMAIN seasons

\* load_season_drivers(season): {} when the file is absent; json.load raises on a
\* truncated file
LoadRaises(st, s) == st[s].file = "corrupt"
load_season_drivers(st, s) == st[s].drivers

\* ensure_season_dir(season): os.makedirs(..., exist_ok=True)
ensure_season_dir(st, s) ==
    IF s \in DOMAIN st THEN st ELSE [x \in DOMAIN st \cup {s} |-> IF x = s THEN NoFile ELSE st[x]]

\* save_season_drivers(season, data): open(p, "w") and json.dump
save_season_drivers(st, s, dm) == [st EXCEPT ![s] = Stored(dm)]

(***************************************************************************)
(* Record Updater: ingest_iracing_event.                                   *)
(***************************************************************************)
\* the sessions whose label is `label`, compared in upper case
SessionsNamed(payload, label) ==
    SelectSeq(payload.sessions, LAMBDA x : Upper(x.simsession_name) = label)

\* race_sessions[0].get("results", []) or []
RaceResults(payload) == SessionsNamed(payload, "RACE")[1].results

\* qual_sessions[0].get("results", []) if qual_sessions else []
QualResults(payload) ==
    IF SessionsNamed(payload, "QUALIFY") = <<>> THEN <<>>
    ELSE SessionsNamed(payload, "QUALIFY")[1].results

\* qual_lookup: stripped non-empty name -> its last qualifying row
QualLookup(qr) ==
    LET named == {Strip(qr[i].display_name) : i \in 1..Len(qr)} \ {""}
        last(n) == CHOOSE i \in 1..Len(qr) :
                     /\ Strip(qr[i].display_name) = n
                     /\ \A j \in 1..Len(qr) : Strip(qr[j].display_name) = n => j <= i
    IN  [n \in named |-> qr[last(n)]]

\* fin_1: the one-based finish, None unless finish_position is an int >= 0
fin_1(row) == IF row.finish_position >= 0 THEN row.finish_position + 1 ELSE None

\* start_1 without the lookup of the qualifying row
start_1_no_qualifying(row, ql) ==
    IF row.starting_position >= 0 THEN row.starting_position + 1
    ELSE IF fin_1(row) # None THEN fin_1(row) + 5 ELSE None

\* start_1: starting_position + 1, else the qualifying finish + 1, else finish + 5
start_1(row, ql) ==
    LET name == Strip(row.display_name)
        qual == IF name \in DOMAIN ql /\ ql[name].finish_position >= 0
                THEN ql[name].finish_position + 1 ELSE None
    IN  IF row.starting_position >= 0 THEN row.starting_position + 1
        ELSE IF qual # None THEN qual
        ELSE IF fin_1(row) # None THEN fin_1(row) + 5 ELSE None

RECURSIVE MaxLaps(_)
MaxLaps(rows) ==
    IF rows = <<>> THEN 0 ELSE Max2(Head(rows).laps_complete, MaxLaps(Tail(rows)))

\* race_distance: the laps of the first row with finish_position 0, and the
\* maximum laps_complete when there is none or it is 0
RaceDistance(rows) ==
    LET winners == SelectSeq(rows, LAMBDA r : r.finish_position = 0)
        first == IF winners = <<>> THEN 0 ELSE winners[1].laps_complete
    IN  IF first = 0 THEN MaxLaps(rows) ELSE first

\* fastest_lap_in_race taken over the lap times of every sign
FastestLapInRace_any_sign(rows) ==
    LET all == {rows[i].best_lap_time : i \in 1..Len(rows)}
    IN  IF all = {} THEN None ELSE CHOOSE t \in all : \A u \in all : t <= u

\* fastest_lap_in_race: the least positive best_lap_time of the race
FastestLapInRace(rows) ==
    LET pos == {rows[i].best_lap_time : i \in 1..Len(rows)} \cap {t \in 1..1000 : TRUE}
    IN  IF pos = {} THEN None ELSE CHOOSE t \in pos : \A u \in pos : t <= u

\* a null best_lap_time makes `best_lap_time > 0` raise TypeError: the row's own,
\* or any row's once this row has a valid lap time and scans the race
RowRaises(row, rows) ==
    \/ row.best_lap_time = None
    \/ /\ row.best_lap_time > 0
       /\ \E i \in 1..Len(rows) : rows[i].best_lap_time = None

\* CountRow with the thresholds of podiums and top10s exchanged
CountRow_swapped(d, fin, start) ==
    [d EXCEPT !.races = d.races + 1,
              !.wins = IF fin # None /\ fin = 1 THEN d.wins + 1 ELSE d.wins,
              !.podiums = IF fin # None /\ fin <= 10 THEN d.podiums + 1 ELSE d.podiums,
              !.top10s = IF fin # None /\ fin <= 3 THEN d.top10s + 1 ELSE d.top10s,
              !.poles = IF start # None /\ start = 1 THEN d.poles + 1 ELSE d.poles]

\* CountRow taking a pole from the zero-based starting position
CountRow_zero_based_pole(d, fin, start) ==
    [d EXCEPT !.races = d.races + 1,
              !.wins = IF fin # None /\ fin = 1 THEN d.wins + 1 ELSE d.wins,
              !.podiums = IF fin # None /\ fin <= 3 THEN d.podiums + 1 ELSE d.podiums,
              !.top10s = IF fin # None /\ fin <= 10 THEN d.top10s + 1 ELSE d.top10s,
              !.poles = IF start # None /\ start = 0 THEN d.poles + 1 ELSE d.poles]

\* races, wins, podiums, top10s and poles of one row
CountRow(d, fin, start) ==
    [d EXCEPT !.races = d.races + 1,
              !.wins = IF fin # None /\ fin = 1 THEN d.wins + 1 ELSE d.wins,
              !.podiums = IF fin # None /\ fin <= 3 THEN d.podiums + 1 ELSE d.podiums,
              !.top10s = IF fin # None /\ fin <= 10 THEN d.top10s + 1 ELSE d.top10s,
              !.poles = IF start # None /\ start = 1 THEN d.poles + 1 ELSE d.poles]

\* the averages, laps, distances, fastest laps, points and position change of one
\* row, on the record d whose counters CountRow has set; rp = d["_rp"]
AccumulateRow(d, row, fin, start, dist, fastest) ==
    [d EXCEPT
       !.avg_finish = IF fin # None THEN wavg(d.avg_finish, FloatOfInt(fin), d.rp, 1)
                      ELSE d.avg_finish,
       !.avg_start = IF start # None THEN wavg(d.avg_start, FloatOfInt(start), d.rp, 1)
                     ELSE d.avg_start,
       !.avg_incidents = wavg(d.avg_incidents, FloatOfInt(row.incidents), d.rp, 1),
       !.laps_complete = d.laps_complete + row.laps_complete,
       !.laps_lead = d.laps_lead + row.laps_lead,
       !.race_distances = IF dist > 0 THEN Append(d.race_distances, dist)
                          ELSE d.race_distances,
       !.fastest_laps = IF fastest THEN d.fastest_laps + 1 ELSE d.fastest_laps,
       !.rp = d.rp + 1,
       !.points = d.points + row.champ_points,
       !.position_change = IF start # None /\ fin # None
                           THEN d.position_change + (start - fin)
                           ELSE d.position_change]

\* the record of one row: drivers_map.setdefault(name, {...}), then the updates
UpdateDriver(d, row, fin, start, rows) ==
    AccumulateRow(CountRow(d, fin, start), row, fin, start, RaceDistance(rows),
                  row.best_lap_time > 0 /\ row.best_lap_time = FastestLapInRace(rows))

\* the body of `for row in race_results` for a named row that does not raise
ProcessRow(dm, row, rows, ql) ==
    [n \in DOMAIN dm \cup {Strip(row.display_name)} |->
       IF n = Strip(row.display_name)
       THEN UpdateDriver(IF n \in DOMAIN dm THEN dm[n] ELSE NewDriver, row,
                         fin_1(row), start_1(row, ql), rows)
       ELSE dm[n]]

\* the loop over race_results from row i on; acc = [dm, raised, updated, processed]
RECURSIVE ProcessRows(_, _, _, _)
ProcessRows(acc, rows, i, ql) ==
    IF i > Len(rows) \/ acc.raised THEN acc
    ELSE IF Strip(rows[i].display_name) = "" THEN ProcessRows(acc, rows, i + 1, ql)
    ELSE IF RowRaises(rows[i], rows)
         THEN [acc EXCEPT !.raised = TRUE, !.processed = acc.processed + 1]
    ELSE ProcessRows([dm |-> ProcessRow(acc.dm, rows[i], rows, ql), raised |-> FALSE,
                      updated |-> acc.updated + 1, processed |-> acc.processed + 1],
                     rows, i + 1, ql)

\* the I/O failures of one callback: json.dump fails after open(p, "w") has
\* truncated drivers.json; the copy in data/uploads cannot be written
Faults == {"none", "save_write", "copy"}

\* the end of ingest_iracing_event after the loop returned acc: the rounding
\* and the save
SaveRows(acc, st, s, fault) ==
    IF acc.raised
    THEN [raised |-> TRUE, st |-> st, updated |-> acc.updated,
          processed |-> acc.processed]
    ELSE IF fault = "save_write"
    THEN [raised |-> TRUE, st |-> [st EXCEPT ![s] = Truncated],
          updated |-> acc.updated, processed |-> acc.processed]
    ELSE [raised |-> FALSE,
          st |-> save_season_drivers(st, s, [n \in DOMAIN acc.dm |-> Rounded(acc.dm[n])]),
          updated |-> acc.updated, processed |-> acc.processed]

\* load, the loop over the rows, the rounding and the save of
\* ingest_iracing_event: [raised, st, updated, processed]
IngestRows(rows, ql, st, s, fault) ==
    IF LoadRaises(st, s)
    THEN [raised |-> TRUE, st |-> st, updated |-> 0, processed |-> 0]
    ELSE SaveRows(ProcessRows([dm |-> [n \in DOMAIN load_season_drivers(st, s) |->
                                         Loaded(load_season_drivers(st, s)[n])],
                               raised |-> FALSE, updated |-> 0, processed |-> 0],
                              rows, 1, ql),
                  st, s, fault)

\* ingest_iracing_event taking a payload without RACE session as one without rows
ingest_no_race_check(payload, st, s, fault) ==
    IF SessionsNamed(payload, "RACE") = <<>>
    THEN IngestRows(<<>>, QualLookup(QualResults(payload)), st, s, fault)
    ELSE IngestRows(RaceResults(payload), QualLookup(QualResults(payload)), st, s, fault)

\* ingest_iracing_event(payload, season) on the stores st
ingest_iracing_event(payload, st, s, fault) ==
    IF SessionsNamed(payload, "RACE") = <<>>
    THEN [raised |-> TRUE, st |-> st, updated |-> 0, processed |-> 0]
    ELSE IngestRows(RaceResults(payload), QualLookup(QualResults(payload)), st, s, fault)

(***************************************************************************)
(* Duplicate Detector and the uploads store.                               *)
(***************************************************************************)
\* A file name of an attachment is [base, len]: `len` characters in all, ending in
\* ".json"; `base` stands for the characters before the extension.

\* _sanitize_filename(name): the unsafe characters become "_", and a name longer
\* than 100 characters is cut to its first 100, which drops the extension
\* (the names above end in ".json" at their last 5 characters only).
_sanitize_filename(fn) ==
    IF fn.len > MAX_NAME_LEN
    THEN [base |-> fn.base, len |-> MAX_NAME_LEN, json |-> FALSE]
    ELSE [base |-> fn.base, len |-> fn.len, json |-> TRUE]

\* out_name = f"{stamp}_{fname}"
out_name(stamp, fn) == [stamp |-> stamp, name |-> _sanitize_filename(fn)]

\* filename.lower().endswith(".json") of a stored file
EndsWithJson(f) == f.name.json

\* _generate_content_hash(content): the first 16 hex digits of SHA-256, taken to
\* be free of collisions on the payloads of the model
_generate_content_hash(content) == content.id

\* _is_duplicate_json(content): the stored .json files with the same hash; the code
\* returns the first one os.listdir yields
_is_duplicate_json(content, up) ==
    {f \in DOMAIN up : EndsWithJson(f)
                       /\ _generate_content_hash(up[f]) = _generate_content_hash(content)}

\* list_uploaded_jsons(): the stored .json files
list_uploaded_jsons(up) == {f \in DOMAIN up : EndsWithJson(f)}

NoStores == [s \in {} |-> NoFile]

NoEvent ==
    [op |-> "none", content |-> "", season |-> "", result |-> "",
     existing |-> "", affected |-> {}, undo |-> FALSE, before |-> NoStores,
     career |-> EmptyMap, metric |-> "", rows |-> <<>>, processed |-> {},
     target |-> "", context |-> 0, ranking |-> <<>>, located |-> None, start |-> 0,
     order |-> <<>>, warnings |-> {}, removed |-> {}, failed |-> {}]

NoPre == [valid |-> FALSE, content |-> "", season |-> "", stores |-> NoStores]

\* the client before any handler is registered: no on_ready, nothing started
NoBot == [on_ready |-> "", ready |-> FALSE, started |-> {}]

\* an empty backups directory: no zip file, no .last_backup.txt (last_backup -1)
NoBackups == [files |-> {}, last_backup |-> -1]

(***************************************************************************)
(* /admin_upload: upload_cmd, run by an admin in the allowed channel with  *)
(* an attachment whose name ends in ".json".                               *)
(***************************************************************************)
UploadCmd(fn, c) ==
    LET dup == _is_duplicate_json(c, uploads)
        v == [filename |-> fn, content |-> c, options |-> list_seasons]
        ev == [NoEvent EXCEPT !.op = "upload", !.content = c.id]
    IN  /\ IF list_seasons = {}
           THEN /\ event' = [ev EXCEPT !.result = "no_seasons"]
                /\ UNCHANGED views
           ELSE IF dup # {}
           THEN /\ \E f \in dup : event' = [ev EXCEPT !.result = "duplicate", !.existing = f]
                /\ UNCHANGED views
           ELSE /\ Cardinality(views \cup {v}) <= MaxViews
                /\ views' = views \cup {v}
                /\ event' = [ev EXCEPT !.result = "ready"]
        /\ UNCHANGED <<seasons, uploads, now, applied, pre, hist, ningest, loop, config, bot, backups, clock>>

(***************************************************************************)
(* UploadSeasonDropdown.callback: the admin picks season s on view v at    *)
(* second t; fault is the I/O failure that strikes, if any.                *)
(***************************************************************************)
UploadSeasonCallback(v, s, fault, t) ==
    LET c == v.content
        ev == [NoEvent EXCEPT !.op = "callback", !.content = c.id,
                              !.season = s]
        st1 == ensure_season_dir(seasons, s)
        r == ingest_iracing_event(c, st1, s, fault)
        saved == ~r.raised
    IN  /\ IF ~c.parsable
           THEN /\ event' = [ev EXCEPT !.result = "error"]
                /\ UNCHANGED <<seasons, uploads, now, applied, pre, ningest>>
           ELSE /\ saved => ningest < MaxIngest
                /\ seasons' = r.st
                /\ applied' = IF saved THEN applied \cup {<<c.id, s>>} ELSE applied
                /\ pre' = IF saved
                          THEN [valid |-> TRUE, content |-> c.id, season |-> s,
                                stores |-> seasons]
                          ELSE pre
                /\ ningest' = IF saved THEN ningest + 1 ELSE ningest
                /\ IF saved /\ fault # "copy"
                   THEN /\ uploads' = [f \in DOMAIN uploads \cup {out_name(t, v.filename)} |->
                                         IF f = out_name(t, v.filename) THEN c ELSE uploads[f]]
                        /\ now' = t
                        /\ event' = [ev EXCEPT !.result = "complete"]
                   ELSE /\ UNCHANGED <<uploads, now>>
                        /\ event' = [ev EXCEPT !.result = "error"]
        /\ UNCHANGED <<views, hist, loop, config, bot, backups, clock>>

(***************************************************************************)
(* Reversal Engine: _remove_ingested_data.                                 *)
(***************************************************************************)
\* deleted_races: stripped non-empty name -> the details of its last row; the start
\* is the row's own starting_position only
DeletedRaces(rows) ==
    LET named == {Strip(rows[i].display_name) : i \in 1..Len(rows)} \ {""}
        last(n) == CHOOSE i \in 1..Len(rows) :
                     /\ Strip(rows[i].display_name) = n
                     /\ \A j \in 1..Len(rows) : Strip(rows[j].display_name) = n => j <= i
    IN  [n \in named |->
           [finish |-> fin_1(rows[last(n)]),
            start |-> IF rows[last(n)].starting_position >= 0
                      THEN rows[last(n)].starting_position + 1 ELSE None,
            incidents |-> rows[last(n)].incidents,
            points |-> rows[last(n)].champ_points]]

\* `race_info["finish"] <= 3` raises TypeError on a None finish; `and` evaluates it
\* only when podiums > 0, and the top10s test likewise
ReverseRaises(d, info) == info.finish = None /\ (d.podiums > 0 \/ d.top10s > 0)

\* whether the body of `if driver_name in drivers_data` sets season_modified
ReverseModifies(d, info) ==
    \/ d.races > 0
    \/ info.finish = 1 /\ d.wins > 0
    \/ info.start = 1 /\ d.poles > 0
    \/ d.podiums > 0 /\ info.finish <= 3
    \/ d.top10s > 0 /\ info.finish <= 10
    \/ d.points > 0

\* the body of `if driver_name in drivers_data` for a row that does not raise
ReverseDriver(d, info) ==
    [d EXCEPT !.races = IF d.races > 0 THEN Max2(0, d.races - 1) ELSE d.races,
              !.wins = IF info.finish = 1 /\ d.wins > 0 THEN Max2(0, d.wins - 1) ELSE d.wins,
              !.poles = IF info.start = 1 /\ d.poles > 0 THEN Max2(0, d.poles - 1)
                        ELSE d.poles,
              !.podiums = IF d.podiums > 0 /\ info.finish <= 3 THEN Max2(0, d.podiums - 1)
                          ELSE d.podiums,
              !.top10s = IF d.top10s > 0 /\ info.finish <= 10 THEN Max2(0, d.top10s - 1)
                         ELSE d.top10s,
              !.points = IF d.points > 0 THEN Max2(0, d.points - info.points)
                         ELSE d.points]

\* the seasons the loop `for season in list_seasons()` saves: drivers.json exists
\* and loads, no driver raises, and some driver sets season_modified
ReverseSaves(del, st, s) ==
    LET dm == load_season_drivers(st, s)
        both == DOMAIN del \cap DOMAIN dm
    IN  /\ st[s].file = "ok"
        /\ \A n \in both : ~ReverseRaises(dm[n], del[n])
        /\ \E n \in both : ReverseModifies(dm[n], del[n])

ReverseSeason(del, st, s) ==
    LET dm == load_season_drivers(st, s)
    IN  Stored([n \in DOMAIN dm |->
                  IF n \in DOMAIN del THEN ReverseDriver(dm[n], del[n]) ELSE dm[n]])

\* _remove_ingested_data(file_content) on the stores st: [st, affected]
_remove_ingested_data(content, st) ==
    IF \/ ~content.parsable
       \/ SessionsNamed(content, "RACE") = <<>>
       \/ RaceResults(content) = <<>>
       \/ DOMAIN DeletedRaces(RaceResults(content)) = {}
    THEN [st |-> st, affected |-> {}]
    ELSE LET del == DeletedRaces(RaceResults(content))
             hit == {s \in DOMAIN st : ReverseSaves(del, st, s)}
         IN  [st |-> [s \in DOMAIN st |->
                        IF s \in hit THEN ReverseSeason(del, st, s) ELSE st[s]],
              affected |-> hit]

(***************************************************************************)
(* DeleteConfirmView.confirm_delete on one stored file f, picked from the  *)
(* files list_uploaded_jsons() showed: reversal, then os.remove.           *)
(***************************************************************************)
ConfirmDelete(f) ==
    LET c == uploads[f]
        r == _remove_ingested_data(c, seasons)
        undo == pre.valid /\ pre.content = c.id
    IN  /\ f \in list_uploaded_jsons(uploads)
        /\ seasons' = r.st
        /\ uploads' = [g \in DOMAIN uploads \ {f} |-> uploads[g]]
        /\ event' = [NoEvent EXCEPT !.op = "delete", !.content = c.id,
                                    !.season = IF undo THEN pre.season ELSE "",
                                    !.result = "deleted", !.affected = r.affected,
                                    !.undo = undo,
                                    !.before = IF undo THEN pre.stores ELSE NoStores]
        /\ pre' = NoPre
        /\ UNCHANGED <<views, now, applied, hist, ningest, loop, config, bot, backups, clock>>

(***************************************************************************)
(* ingest_iracing_event(payload, season) as an operation of its own, on a  *)
(* season that exists.                                                     *)
(***************************************************************************)
IngestEvent(c, s) ==
    LET r == ingest_iracing_event(c, seasons, s, "none")
        ev == [NoEvent EXCEPT !.op = "ingest", !.content = c.id, !.season = s]
    IN  /\ s \in list_seasons
        /\ seasons' = r.st
        /\ event' = [ev EXCEPT !.result = IF r.raised THEN "error" ELSE "complete"]
        /\ applied' = IF r.raised THEN applied ELSE applied \cup {<<c.id, s>>}
        /\ ningest' = IF r.raised THEN ningest ELSE ningest + 1
        /\ UNCHANGED <<uploads, views, now, pre, loop, config, bot, backups, clock>>

(***************************************************************************)
(* Career Aggregator: _aggregate_career.                                   *)
(***************************************************************************)
\* CareerStep keeping the points of the last season instead of their sum
CareerStep_last_points(o, d) ==
    [o EXCEPT !.races = o.races + d.races,
              !.wins = o.wins + d.wins,
              !.poles = o.poles + d.poles,
              !.podiums = o.podiums + d.podiums,
              !.top10s = o.top10s + d.top10s,
              !.points = d.points,
              !.laps_complete = o.laps_complete + d.laps_complete,
              !.laps_lead = o.laps_lead + d.laps_lead,
              !.fastest_laps = o.fastest_laps + d.fastest_laps,
              !.race_distances = o.race_distances \o d.race_distances,
              !.avg_incidents = wavg(o.avg_incidents, FloatOfDecimal(d.avg_incidents, 3),
                                     o.rp, d.races),
              !.avg_start = wavg(o.avg_start, FloatOfDecimal(d.avg_start, 3),
                                 o.rp, d.races),
              !.avg_finish = wavg(o.avg_finish, FloatOfDecimal(d.avg_finish, 3),
                                  o.rp, d.races),
              !.position_change = o.position_change + d.position_change,
              !.rp = o.rp + d.races]

\* the body of `for name, d in sd.items()`: the stored record d of one season
\* folded into the career record o
CareerStep(o, d) ==
    [o EXCEPT !.races = o.races + d.races,
              !.wins = o.wins + d.wins,
              !.poles = o.poles + d.poles,
              !.podiums = o.podiums + d.podiums,
              !.top10s = o.top10s + d.top10s,
              !.points = o.points + d.points,
              !.laps_complete = o.laps_complete + d.laps_complete,
              !.laps_lead = o.laps_lead + d.laps_lead,
              !.fastest_laps = o.fastest_laps + d.fastest_laps,
              !.race_distances = o.race_distances \o d.race_distances,
              !.avg_incidents = wavg(o.avg_incidents, FloatOfDecimal(d.avg_incidents, 3),
                                     o.rp, d.races),
              !.avg_start = wavg(o.avg_start, FloatOfDecimal(d.avg_start, 3),
                                 o.rp, d.races),
              !.avg_finish = wavg(o.avg_finish, FloatOfDecimal(d.avg_finish, 3),
                                  o.rp, d.races),
              !.position_change = o.position_change + d.position_change,
              !.rp = o.rp + d.races]

\* the loop `for s in list_seasons()` from the i-th season of `order` on
RECURSIVE CareerFold(_, _, _, _)
CareerFold(out, st, order, i) ==
    IF i > Len(order) THEN out
    ELSE LET sd == load_season_drivers(st, order[i])
             folded == [n \in DOMAIN out \cup DOMAIN sd |->
                          IF n \in DOMAIN sd
                          THEN CareerStep(IF n \in DOMAIN out THEN out[n] ELSE NewDriver, sd[n])
                          ELSE out[n]]
         IN  CareerFold(folded, st, order, i + 1)

\* the closing loop of _aggregate_career: round the three averages to 2 decimals
CareerRounded(o) ==
    [o EXCEPT !.avg_incidents = Round2(o.avg_incidents),
              !.avg_start = Round2(o.avg_start),
              !.avg_finish = Round2(o.avg_finish)]

\* _aggregate_career() with the seasons taken in the given order
AggregateInOrder(st, order) ==
    LET out == CareerFold(EmptyMap, st, order, 1)
    IN  [n \in DOMAIN out |-> CareerRounded(out[n])]

\* sorted(os.listdir(SEASONS_DIR)) on the season names of the model
SortedSeasons(st) == SelectSeq(<<"S1", "S2", "S3">>, LAMBDA x : x \in DOMAIN st)

\* _aggregate_career() on the stores st
_aggregate_career(st) == AggregateInOrder(st, SortedSeasons(st))

RECURSIVE SumSeq(_)
SumSeq(q) == IF q = <<>> THEN 0 ELSE Head(q) + SumSeq(Tail(q))

\* validate_percentage_calculations(driver_data, driver_name) prints a
\* "Validation Warning" for the record d
Warns(d) ==
    \/ d.wins > d.races \/ d.podiums > d.races \/ d.top10s > d.races \/ d.poles > d.races
    \/ d.podiums < d.wins
    \/ d.top10s < d.podiums
    \/ Len(d.race_distances) # d.races
    \/ d.laps_lead > d.laps_complete
    \/ d.laps_complete > SumSeq(d.race_distances) /\ SumSeq(d.race_distances) > 0

\* the place of a driver name in the order of str
NameOrder(n) == CASE n = "Alice" -> 1 [] n = "Bob" -> 2 [] OTHER -> 3

\* `len([name for name in out.keys() if name <= driver_name]) <= 3`: the
\* records of _aggregate_career that are validated
Validated(out) ==
    {n \in DOMAIN out :
        Cardinality({m \in DOMAIN out : NameOrder(m) <= NameOrder(n)}) <= 3}

\* the drivers _aggregate_career prints a validation warning for
CareerWarnings(out) == {n \in Validated(out) : Warns(out[n])}

\* a command that shows the all-time table
CareerQuery ==
    /\ \A s \in list_seasons : ~LoadRaises(seasons, s)
    /\ event' = [NoEvent EXCEPT !.op = "career", !.result = "complete",
                                !.career = _aggregate_career(seasons),
                                !.warnings = CareerWarnings(_aggregate_career(seasons))]
    /\ UNCHANGED <<seasons, uploads, views, now, applied, pre, hist, ningest, loop, config, bot, backups, clock>>

(***************************************************************************)
(* Leaderboards: _rows_from_dataset and _sort_key.  The percentages of a   *)
(* row are tenths of a percent, its averages hundredths.                   *)
(***************************************************************************)
\* FILTERS: the metrics of the leaderboard dropdown
FILTERS ==
    {"races", "wins", "wins_pct", "podiums", "podiums_pct", "top10s", "top10s_pct",
     "points", "poles", "poles_pct", "fastest_laps", "laps_complete",
     "laps_complete_pct", "laps_lead", "laps_lead_pct", "avg_start", "avg_finish",
     "avg_incidents", "position_change"}

LowerIsBetter == {"avg_start", "avg_finish", "avg_incidents"}

\* round((part / whole) * 100, 1) when whole > 0; the stores hold no percentage
Pct(part, whole) ==
    IF whole > 0 THEN RoundDecimal(FMul(FDiv(FloatOfInt(part), whole), 100), 1) ELSE 0

\* the row _rows_from_dataset appends for driver `name` with stored record d
RowOf(name, d) ==
    [name |-> name, points |-> d.points, races |-> d.races, wins |-> d.wins,
     wins_pct |-> Pct(d.wins, d.races), poles |-> d.poles,
     poles_pct |-> Pct(d.poles, d.races), podiums |-> d.podiums,
     podiums_pct |-> Pct(d.podiums, d.races), top10s |-> d.top10s,
     top10s_pct |-> Pct(d.top10s, d.races),
     avg_incidents |-> Round2(FloatOfDecimal(d.avg_incidents, 3)),
     avg_start |-> Round2(FloatOfDecimal(d.avg_start, 3)),
     avg_finish |-> Round2(FloatOfDecimal(d.avg_finish, 3)),
     laps_complete |-> d.laps_complete,
     laps_complete_pct |-> Pct(d.laps_complete, SumSeq(d.race_distances)),
     laps_lead |-> d.laps_lead,
     laps_lead_pct |-> Pct(d.laps_lead, SumSeq(d.race_distances)),
     fastest_laps |-> d.fastest_laps, race_distances |-> d.race_distances,
     position_change |-> d.position_change]

\* _sort_key without the negation of the lower-is-better metrics
sort_key_plain(metric, row) == row[metric]

\* row.get(metric, 0)
Get(row, metric) == IF metric \in DOMAIN row THEN row[metric] ELSE 0

\* _sort_key(metric, row)
_sort_key(metric, row) ==
    IF metric \in LowerIsBetter THEN 0 - Get(row, metric) ELSE Get(row, metric)

\* an ascending sort read backwards: rows of equal key in the reverse of the order
\* they had
PlaceOf_ties_reversed(rows, metric, i) ==
    Cardinality({j \in 1..Len(rows) :
                   \/ _sort_key(metric, rows[j]) > _sort_key(metric, rows[i])
                   \/ _sort_key(metric, rows[j]) = _sort_key(metric, rows[i]) /\ j >= i})

\* rows.sort(key=..., reverse=True): by decreasing key, rows of equal key in the
\* order they had; PlaceOf is the place row i of `rows` takes
PlaceOf(rows, metric, i) ==
    Cardinality({j \in 1..Len(rows) :
                   \/ _sort_key(metric, rows[j]) > _sort_key(metric, rows[i])
                   \/ _sort_key(metric, rows[j]) = _sort_key(metric, rows[i]) /\ j <= i})

SortRows(rows, metric) ==
    [p \in 1..Len(rows) |-> rows[CHOOSE i \in 1..Len(rows) : PlaceOf(rows, metric, i) = p]]

\* rows[:limit] if limit, else rows
Limited(rows, limit) ==
    IF limit = None \/ limit = 0 \/ limit >= Len(rows) THEN rows ELSE SubSeq(rows, 1, limit)

\* the orders in which a dict of these names can list them
DictOrders(names) ==
    {p \in [1..Cardinality(names) -> names] : \A n \in names : \E i \in DOMAIN p : p[i] = n}

\* the loop `for name, d in dataset.items()` from the i-th driver on
RECURSIVE AppendRows(_, _, _)
AppendRows(dataset, order, i) ==
    IF i > Len(order) THEN <<>>
    ELSE <<RowOf(order[i], dataset[order[i]])>> \o AppendRows(dataset, order, i + 1)

\* _rows_from_dataset(dataset, metric, limit) on a dataset that lists its
\* drivers in the order `order`
_rows_from_dataset(dataset, order, metric, limit) ==
    Limited(SortRows(AppendRows(dataset, order, 1), metric), limit)

\* a leaderboard of season s by one of the FILTERS
RankQuery ==
    \E s \in list_seasons, metric \in FILTERS, limit \in {None, 2} :
       \E order \in DictOrders(DOMAIN load_season_drivers(seasons, s)) :
          /\ ~LoadRaises(seasons, s)
          /\ event' = [NoEvent EXCEPT
                         !.op = "rank", !.season = s, !.metric = metric,
                         !.result = "complete",
                         !.rows = _rows_from_dataset(load_season_drivers(seasons, s),
                                                     order, metric, limit)]
          /\ UNCHANGED <<seasons, uploads, views, now, applied, pre, hist, ningest, loop, config, bot, backups, clock>>

(***************************************************************************)
(* Center-on-driver: get_drivers_around_position, FindMeButton.callback    *)
(* and FindMeResultsView.  A name is the sequence of its characters.       *)
(***************************************************************************)
\* the characters of the driver names and linked names that occur
Chars(s) ==
    CASE s = "Al" -> <<"A", "l">>
      [] s = "Alice" -> <<"A", "l", "i", "c", "e">>
      [] s = "A l" -> <<"A", " ", "l">>
      [] s = "Al1" -> <<"A", "l", "1">>
      [] s = "Bo Al" -> <<"B", "o", " ", "A", "l">>
      [] s = "Bo" -> <<"B", "o">>
      [] s = "Cy" -> <<"C", "y">>
      [] s = "Di" -> <<"D", "i">>
      [] s = "Ed" -> <<"E", "d">>
      [] s = "al" -> <<"a", "l">>
      [] s = " AL " -> <<" ", "A", "L", " ">>
      [] s = "al bo" -> <<"a", "l", " ", "b", "o">>
      [] s = "al2" -> <<"a", "l", "2">>
      [] s = "cy" -> <<"c", "y">>
      [] s = "di" -> <<"d", "i">>
      [] s = "ed" -> <<"e", "d">>
      [] s = "zed" -> <<"z", "e", "d">>
      [] s = "Fay" -> <<"F", "a", "y">>
      [] s = "Gus" -> <<"G", "u", "s">>
      [] s = "Hal" -> <<"H", "a", "l">>
      [] s = "Ian" -> <<"I", "a", "n">>
      [] s = "ian" -> <<"i", "a", "n">>
      [] s = "AL" -> <<"A", "L">>
      [] s = " Bo" -> <<" ", "B", "o">>
      [] s = "  " -> <<" ", " ">>
      [] OTHER -> <<>>

\* str.lower() of one character
LowerChar(c) ==
    CASE c = "A" -> "a" [] c = "B" -> "b" [] c = "C" -> "c" [] c = "D" -> "d"
      [] c = "E" -> "e" [] c = "L" -> "l" [] c = "F" -> "f" [] c = "G" -> "g"
      [] c = "H" -> "h" [] c = "I" -> "i" [] OTHER -> c

RECURSIVE lower(_)
lower(q) == IF q = <<>> THEN <<>> ELSE <<LowerChar(Head(q))>> \o lower(Tail(q))

RECURSIVE lstrip(_)
lstrip(q) == IF q # <<>> /\ Head(q) = " " THEN lstrip(Tail(q)) ELSE q

RECURSIVE Reversed(_)
Reversed(q) == IF q = <<>> THEN <<>> ELSE Reversed(Tail(q)) \o <<Head(q)>>

\* str.strip()
strip(q) == Reversed(lstrip(Reversed(lstrip(q))))

\* name.strip().lower()
Clean(s) == lower(strip(Chars(s)))

\* q.replace(" ", "")
NoSpaces(q) == SelectSeq(q, LAMBDA c : c # " ")

\* a in b, for strings
IsIn(a, b) == \E i \in 0..(Len(b) - Len(a)) : SubSeq(b, i + 1, i + Len(a)) = a

\* ''.join(c for c in q if c.isalpha() or c.isspace())
AlphaOnly(q) == SelectSeq(q, LAMBDA c : c \notin {"1", "2"})

\* q.split(): the words between runs of spaces
RECURSIVE FirstWord(_)
FirstWord(q) ==
    IF q = <<>> \/ Head(q) = " " THEN <<>> ELSE <<Head(q)>> \o FirstWord(Tail(q))

RECURSIVE split(_)
split(q) ==
    IF lstrip(q) = <<>> THEN <<>>
    ELSE <<FirstWord(lstrip(q))>>
         \o split(SubSeq(lstrip(q), Len(FirstWord(lstrip(q))) + 1, Len(lstrip(q))))

\* ' '.join(parts)
RECURSIVE join(_)
join(parts) ==
    IF parts = <<>> THEN <<>>
    ELSE IF Len(parts) = 1 THEN parts[1]
    ELSE parts[1] \o <<" ">> \o join(Tail(parts))

\* f"{target_parts[-1]} {' '.join(target_parts[:-1])}"
target_reversed(parts) ==
    parts[Len(parts)] \o <<" ">> \o join(SubSeq(parts, 1, Len(parts) - 1))

\* the index (from 0) of the first row whose name satisfies Match, None without one
FirstRow(rows, Match(_)) ==
    IF \E i \in 1..Len(rows) : Match(rows[i].name)
    THEN (CHOOSE i \in 1..Len(rows) :
             Match(rows[i].name) /\ \A j \in 1..(i - 1) : ~Match(rows[j].name)) - 1
    ELSE None

\* the first of the indexes a and b that is not None
OrElse(a, b) == IF a # None THEN a ELSE b

\* the loops of get_drivers_around_position that set target_index
ExactMatch(rows, t) == FirstRow(rows, LAMBDA n : Clean(n) = t)
SpaceRemovedMatch(rows, t) == FirstRow(rows, LAMBDA n : NoSpaces(Clean(n)) = NoSpaces(t))
ContainsMatch(rows, t) == FirstRow(rows, LAMBDA n : IsIn(t, Clean(n)) \/ IsIn(Clean(n), t))
CleanedMatch(rows, t) == FirstRow(rows, LAMBDA n : AlphaOnly(Clean(n)) = AlphaOnly(t))
ReversedMatch(rows, t) ==
    IF Len(split(t)) >= 2
    THEN FirstRow(rows, LAMBDA n : Clean(n) = target_reversed(split(t)))
    ELSE None

\* target_index of get_drivers_around_position for the cleaned target t
target_index(rows, t) ==
    OrElse(ExactMatch(rows, t),
       OrElse(SpaceRemovedMatch(rows, t),
          OrElse(ContainsMatch(rows, t),
             OrElse(CleanedMatch(rows, t), ReversedMatch(rows, t)))))

\* user_position of FindMeButton.callback: the first row that matches in any way
user_position(rows, t) ==
    FirstRow(rows, LAMBDA n : \/ Clean(n) = t
                              \/ NoSpaces(Clean(n)) = NoSpaces(t)
                              \/ IsIn(t, Clean(n))
                              \/ IsIn(Clean(n), t))

\* user_position of refresh_find_me: its last test is
\* `row_name_clean in row_name_clean`
refresh_user_position(rows, t) ==
    FirstRow(rows, LAMBDA n : \/ Clean(n) = t
                              \/ NoSpaces(Clean(n)) = NoSpaces(t)
                              \/ IsIn(t, Clean(n))
                              \/ IsIn(Clean(n), Clean(n)))

\* the row get_drivers_around_position appends for driver `name`: no percentages
AroundRowOf(name, d) ==
    [name |-> name, points |-> d.points, races |-> d.races, wins |-> d.wins,
     poles |-> d.poles, podiums |-> d.podiums, top10s |-> d.top10s,
     avg_incidents |-> Round2(FloatOfDecimal(d.avg_incidents, 3)),
     avg_start |-> Round2(FloatOfDecimal(d.avg_start, 3)),
     avg_finish |-> Round2(FloatOfDecimal(d.avg_finish, 3)),
     laps_complete |-> d.laps_complete, laps_lead |-> d.laps_lead,
     fastest_laps |-> d.fastest_laps]

RECURSIVE AroundRows(_, _, _)
AroundRows(dataset, order, i) ==
    IF i > Len(order) THEN <<>>
    ELSE <<AroundRowOf(order[i], dataset[order[i]])>> \o AroundRows(dataset, order, i + 1)

Min2(a, b) == IF a <= b THEN a ELSE b

\* rows[start:end] with row["global_position"] = start + i + 1
RECURSIVE Positioned(_, _, _)
Positioned(rows, start, end) ==
    IF start >= end THEN <<>>
    ELSE <<[f \in DOMAIN rows[start + 1] \cup {"global_position"} |->
              IF f = "global_position" THEN start + 1 ELSE rows[start + 1][f]]>>
         \o Positioned(rows, start + 1, end)

\* the slice of get_drivers_around_position around index p
AroundStart(n, p, context) == IF p < context THEN 0 ELSE Max2(0, p - context)
AroundEnd(n, p, context) == IF p < context THEN Min2(5, n) ELSE Min2(n, p + context + 1)

\* start_pos and end_pos of FindMeButton.callback and of FindMeResultsView
start_pos(n, p) ==
    IF Min2(Max2(0, p - 2) + 5, n) = n /\ n > 5 THEN Max2(0, n - 5) ELSE Max2(0, p - 2)
end_pos(n, p) == Min2(Max2(0, p - 2) + 5, n)

\* what a center-on-driver operation found and shows: rows is the ranking, p the
\* located index (None: not found) and the window is rows[a:b]; the dataset
\* lists its drivers in the order `order`
Found(kind, order, metric, target, context, rows, p, a, window) ==
    /\ event' = [NoEvent EXCEPT
                   !.op = kind, !.season = "S1", !.metric = metric, !.target = target,
                   !.order = order,
                   !.context = context, !.ranking = rows, !.located = p,
                   !.start = IF p = None THEN 0 ELSE a,
                   !.rows = IF p = None THEN <<>> ELSE window,
                   !.result = IF p = None THEN "not found" ELSE "complete"]
    /\ UNCHANGED <<seasons, uploads, views, now, applied, pre, hist, ningest, loop, config, bot, backups, clock>>

\* get_drivers_around_position(dataset, metric, target_name, context) on the
\* ranking `rows`
AroundFound(order, metric, target, context, rows, p) ==
    Found("around", order, metric, target, context, rows, p, AroundStart(Len(rows), p, context),
          Positioned(rows, AroundStart(Len(rows), p, context),
                     AroundEnd(Len(rows), p, context)))

GetDriversAroundPosition(dataset, order, metric, target, context) ==
    AroundFound(order, metric, target, context, SortRows(AroundRows(dataset, order, 1), metric),
                target_index(SortRows(AroundRows(dataset, order, 1), metric), Clean(target)))

\* FindMeButton.callback of a member linked to `target`, from a view of season
\* S1 by `metric`: the centered_drivers it computes
CenteredFound(order, metric, target, rows, p) ==
    Found("find_me", order, metric, target, 2, rows, p, start_pos(Len(rows), p),
          SubSeq(rows, start_pos(Len(rows), p) + 1, end_pos(Len(rows), p)))

FindMeCallback(dataset, order, metric, target) ==
    /\ dataset # EmptyMap
    /\ CenteredFound(order, metric, target, _rows_from_dataset(dataset, order, metric, None),
                     user_position(_rows_from_dataset(dataset, order, metric, None),
                                   Clean(target)))

\* the centered view of FindMeResultsView: global_pos = start_pos + i + 1
FindMeFound(kind, order, metric, target, rows, p) ==
    Found(kind, order, metric, target, 2, rows, p, start_pos(Len(rows), p),
          Positioned(rows, start_pos(Len(rows), p), end_pos(Len(rows), p)))

\* FindMeResultsView.refresh_find_me
RefreshFindMe(dataset, order, metric, target) ==
    /\ dataset # EmptyMap
    /\ FindMeFound("refresh", order, metric, target,
                   _rows_from_dataset(dataset, order, metric, None),
                   refresh_user_position(_rows_from_dataset(dataset, order, metric, None),
                                         Clean(target)))

\* FindMeResultsView.initialize_with_centered_data(interaction, rows,
\* user_position, total_drivers) with total_drivers = len(rows)
InitializeWithCenteredData(dataset, order, metric, p) ==
    FindMeFound("initialize", order, metric, "",
                _rows_from_dataset(dataset, order, metric, None), p)

\* the row GoToBottomButton.callback appends for driver `name`: no percentages
BottomRowOf(name, d) ==
    [name |-> name, points |-> d.points, races |-> d.races, wins |-> d.wins,
     poles |-> d.poles, podiums |-> d.podiums, top10s |-> d.top10s,
     avg_incidents |-> Round2(FloatOfDecimal(d.avg_incidents, 3)),
     avg_start |-> Round2(FloatOfDecimal(d.avg_start, 3)),
     avg_finish |-> Round2(FloatOfDecimal(d.avg_finish, 3)),
     laps_complete |-> d.laps_complete, laps_lead |-> d.laps_lead,
     fastest_laps |-> d.fastest_laps, race_distances |-> d.race_distances,
     position_change |-> d.position_change]

RECURSIVE BottomRows(_, _, _)
BottomRows(dataset, order, i) ==
    IF i > Len(order) THEN <<>>
    ELSE <<BottomRowOf(order[i], dataset[order[i]])>> \o BottomRows(dataset, order, i + 1)

\* total_pages = max(1, (total_drivers + 4) // 5)
total_pages(n) == Max2(1, (n + 4) \div 5)

\* GoToBottomButton.callback on the ranking `rows`: the last page
BottomFound(order, metric, rows) ==
    Found("bottom", order, metric, "", 0, rows, 0, (total_pages(Len(rows)) - 1) * 5,
          Positioned(rows, (total_pages(Len(rows)) - 1) * 5, Len(rows)))

GoToBottom(dataset, order, metric) ==
    /\ dataset # EmptyMap
    /\ BottomFound(order, metric, SortRows(BottomRows(dataset, order, 1), metric))

(***************************************************************************)
(* LeaderboardView: the paged leaderboard of /leaderboard, its dropdowns   *)
(* and its page buttons.                                                   *)
(***************************************************************************)
\* LeaderboardView(initial_season, metric): current_page = 0, and the options of
\* its SeasonDropdown are the seasons listed when it is built
LeaderboardView(st, season, metric) ==
    [kind |-> "leaderboard", season_choice |-> season, metric |-> metric,
     current_page |-> 0, options |-> {"__CAREER__"} \cup DOMAIN st]

\* the stores after load_season_drivers(season): season_drivers_path calls
\* ensure_season_dir, which makes the directory of a season that has none
StoresAfterLoad(st, s) == ensure_season_dir(st, s)

\* the stores after LeaderboardView._dataset() of a view with a season_choice
StoresAfterDataset(st, v) ==
    IF v.season_choice = "__CAREER__" THEN st ELSE StoresAfterLoad(st, v.season_choice)

\* a record of _aggregate_career with its averages in thousandths
AsStored(o) ==
    [o EXCEPT !.avg_incidents = 10 * o.avg_incidents, !.avg_start = 10 * o.avg_start,
              !.avg_finish = 10 * o.avg_finish]

CareerDataset(out) == [n \in DOMAIN out |-> AsStored(out[n])]

\* the data of LeaderboardView._dataset()
_dataset(st, v) ==
    IF v.season_choice = "__CAREER__" THEN CareerDataset(_aggregate_career(st))
    ELSE load_season_drivers(StoresAfterLoad(st, v.season_choice), v.season_choice)

\* the driver names in the order the files list them
ListedNames ==
    <<"Cy", "Di", "Ed", "Bo", "Alice", "Bo Al", "Al", "A l", "Al1", "Fay", "Gus", "Hal",
      "Ian">>

ListingOf(data) == SelectSeq(ListedNames, LAMBDA n : n \in DOMAIN data)

\* LeaderboardView._get_rows()
_get_rows(st, v) ==
    _rows_from_dataset(_dataset(st, v), ListingOf(_dataset(st, v)), v.metric, None)

\* total_pages of refresh, _update_button_states and NextPageButton
PagesOf(st, v) == total_pages(Len(_get_rows(st, v)))

\* LeaderboardView._get_paginated_rows(): all_rows[start_idx:end_idx]
PageRows(rows, page) == SubSeq(rows, page * 5 + 1, Min2(page * 5 + 5, Len(rows)))

\* LeaderboardView.refresh of the view v, which replaces the view u in the message
Refreshed(kind, u, v) ==
    /\ views' = (views \ {u}) \cup {v}
    /\ seasons' = StoresAfterDataset(seasons, v)
    /\ event' = [NoEvent EXCEPT
                   !.op = kind, !.season = v.season_choice, !.metric = v.metric,
                   !.result = "complete",
                   !.rows = PageRows(_get_rows(seasons, v), v.current_page)]
    /\ UNCHANGED <<uploads, now, applied, pre, hist, ningest, loop, config, bot, backups, clock>>

\* leaderboard_cmd: LeaderboardView("__CAREER__", "points") and view.show
LeaderboardCmd ==
    Refreshed("leaderboard", LeaderboardView(seasons, "__CAREER__", "points"),
              LeaderboardView(seasons, "__CAREER__", "points"))

\* NextPageButton.callback on a view with refresh
NextPage(v) ==
    /\ v.current_page < PagesOf(seasons, v) - 1
    /\ Refreshed("next", v, [v EXCEPT !.current_page = v.current_page + 1])

\* PreviousPageButton.callback
PreviousPage(v) ==
    /\ v.current_page > 0
    /\ Refreshed("previous", v, [v EXCEPT !.current_page = v.current_page - 1])

\* SeasonDropdown.callback with the selected value: a view beyond its second
\* page is replaced by a new view, another one keeps its page
SeasonSelect(v, value) ==
    /\ value \in v.options
    /\ IF v.current_page > 1
       THEN Refreshed("season_select", v, LeaderboardView(seasons, value, v.metric))
       ELSE Refreshed("season_select", v, [v EXCEPT !.season_choice = value])

\* MetricDropdown.callback with the selected value
MetricSelect(v, value) ==
    IF v.current_page > 1
    THEN Refreshed("metric_select", v, LeaderboardView(seasons, v.season_choice, value))
    ELSE Refreshed("metric_select", v, [v EXCEPT !.metric = value])

\* FindMeButton.callback from a LeaderboardView by a member linked to `target`
\* who is found at index p: current_page = page_containing_user
FindMePage(v, target) ==
    /\ user_position(_get_rows(seasons, v), Clean(target)) # None
    /\ Refreshed("find_me_page", v,
                 [v EXCEPT !.current_page =
                    user_position(_get_rows(seasons, v), Clean(target)) \div 5])

(***************************************************************************)
(* Season administration: /admin_season_set_current, /admin_season_delete  *)
(* and /admin_season_rename.  A command sends a view whose dropdown lists   *)
(* the seasons of that moment; its callback runs when an option is picked.  *)
(***************************************************************************)
\* current_season_name(): "" stands for None
current_season_name == config.current_season

\* a command that sends a view with a dropdown of list_seasons()
DropdownCmd(kind) ==
    /\ list_seasons # {}
    /\ views' = views \cup {[kind |-> kind, options |-> list_seasons]}
    /\ event' = [NoEvent EXCEPT !.op = kind, !.result = "ready"]
    /\ UNCHANGED <<seasons, uploads, now, applied, pre, hist, ningest, loop, config, bot, backups, clock>>

\* season_set_current_cmd, season_delete_cmd and season_rename_cmd
season_set_current_cmd == DropdownCmd("season_set")
season_delete_cmd == DropdownCmd("season_delete")
season_rename_cmd == DropdownCmd("season_rename")

\* SeasonSetDropdown.callback with the picked option
SeasonSetCallback(v, choice) ==
    /\ v.kind = "season_set"
    /\ choice \in v.options \cup {"__NONE__"}
    /\ config' = [config EXCEPT !.current_season = IF choice = "__NONE__" THEN "" ELSE choice]
    /\ event' = [NoEvent EXCEPT !.op = "set_current", !.season = choice, !.result = "complete"]
    /\ UNCHANGED <<seasons, uploads, views, now, applied, pre, hist, ningest, loop, bot, backups, clock>>

\* SeasonDeleteDropdown.callback: refuses the current season, else sends a
\* SeasonDeleteConfirmView
SeasonDeleteCallback(v, season) ==
    /\ v.kind = "season_delete"
    /\ season \in v.options
    /\ IF current_season_name = season
       THEN /\ event' = [NoEvent EXCEPT !.op = "delete_select", !.season = season,
                                       !.result = "refused"]
            /\ UNCHANGED views
       ELSE /\ event' = [NoEvent EXCEPT !.op = "delete_select", !.season = season,
                                       !.result = "ready"]
            /\ views' = views \cup {[kind |-> "delete_confirm", options |-> {season}]}
    /\ UNCHANGED <<seasons, uploads, now, applied, pre, hist, ningest, loop, config, bot, backups, clock>>

\* shutil.rmtree(ensure_season_dir(season))
RemoveSeason(st, s) == [x \in DOMAIN st \ {s} |-> st[x]]

\* SeasonDeleteConfirmView.confirm_delete
SeasonConfirmDelete(v) ==
    /\ v.kind = "delete_confirm"
    /\ \E season \in v.options :
          /\ seasons' = RemoveSeason(seasons, season)
          /\ event' = [NoEvent EXCEPT !.op = "season_delete", !.season = season,
                                      !.result = "deleted"]
    /\ UNCHANGED <<uploads, views, now, applied, pre, hist, ningest, loop, config, bot, backups, clock>>

\* SeasonRenameDropdown.callback and SeasonRenameModal.on_submit with the name
\* typed into the modal
SeasonRename(v, old_name, new_name) ==
    /\ v.kind = "season_rename"
    /\ old_name \in v.options
    /\ IF new_name = old_name \/ old_name \notin DOMAIN seasons \/ new_name \in DOMAIN seasons
       THEN /\ event' = [NoEvent EXCEPT !.op = "rename", !.season = old_name,
                                       !.result = "refused"]
            /\ UNCHANGED <<seasons, config>>
       ELSE /\ seasons' = [x \in (DOMAIN seasons \ {old_name}) \cup {new_name} |->
                            IF x = new_name THEN seasons[old_name] ELSE seasons[x]]
            /\ config' = IF current_season_name = old_name
                         THEN [config EXCEPT !.current_season = new_name] ELSE config
            /\ event' = [NoEvent EXCEPT !.op = "rename", !.season = old_name,
                                       !.result = "complete"]
    /\ UNCHANGED <<uploads, views, now, applied, pre, hist, ningest, loop, bot, backups, clock>>

(***************************************************************************)
(* Season management and /admin_sync_all_data.                             *)
(***************************************************************************)
\* season_create_cmd: ensure_season_dir(name)
SeasonCreate(name) ==
    /\ seasons' = ensure_season_dir(seasons, name)
    /\ event' = [NoEvent EXCEPT !.op = "season_create", !.season = name,
                                !.result = "complete"]
    /\ UNCHANGED <<uploads, views, now, applied, pre, hist, ningest, loop, config, bot, backups, clock>>

\* the dropdown of season_set_current_cmd: set_current_season(s)
SetCurrentSeason(s) ==
    /\ s \in list_seasons
    /\ config' = [config EXCEPT !.current_season = s]
    /\ event' = [NoEvent EXCEPT !.op = "set_current", !.season = s, !.result = "complete"]
    /\ UNCHANGED <<seasons, uploads, views, now, applied, pre, hist, ningest, loop, bot, backups, clock>>

\* the first file of list_uploaded_jsons() among files: the latest written
LatestFile(files) == CHOOSE f \in files : \A g \in files : g.stamp <= f.stamp

\* process_json_into_season(file_content, season) with the ingestion result r:
\* True when rows were processed
SyncProcessed(acc, f, c, r) ==
    IF r.raised \/ r.processed = 0
    THEN [acc EXCEPT !.st = r.st]
    ELSE [st |-> r.st, processed |-> acc.processed \cup {c.id},
          before |-> acc.st, last |-> c.id]

\* one turn of `for filename in uploaded_files` on file f: a season that holds
\* drivers makes the file "already processed"
SyncFile(acc, up, cur, f) ==
    IF LoadRaises(acc.st, cur) \/ DOMAIN load_season_drivers(acc.st, cur) # {}
       \/ ~up[f].parsable
    THEN acc
    ELSE SyncProcessed(acc, f, up[f],
                       ingest_iracing_event(up[f], ensure_season_dir(acc.st, cur), cur, "none"))

RECURSIVE SyncFiles(_, _, _, _)
SyncFiles(acc, up, cur, files) ==
    IF files = {} THEN acc
    ELSE SyncFiles(SyncFile(acc, up, cur, LatestFile(files)), up, cur,
                   files \ {LatestFile(files)})

\* sync_all_data_cmd ended with r
SyncDone(r) ==
    /\ seasons' = r.st
    /\ event' = [NoEvent EXCEPT !.op = "sync", !.season = config.current_season,
                                !.result = "complete", !.processed = r.processed]
    /\ applied' = applied \cup {<<c, config.current_season>> : c \in r.processed}
    /\ pre' = IF r.processed = {} THEN pre
              ELSE [valid |-> TRUE, content |-> r.last, season |-> config.current_season,
                    stores |-> r.before]
    /\ ningest' = ningest + Cardinality(r.processed)
    /\ UNCHANGED <<uploads, views, now, hist, loop, config, bot, backups, clock>>

\* sync_all_data_cmd, run by an admin
SyncAllData ==
    IF list_uploaded_jsons(uploads) # {} /\ list_seasons # {} /\ config.current_season # ""
    THEN SyncDone(SyncFiles([st |-> seasons, processed |-> {}, before |-> seasons,
                             last |-> ""],
                            uploads, config.current_season, list_uploaded_jsons(uploads)))
    ELSE SyncDone([st |-> seasons, processed |-> {}, before |-> seasons, last |-> ""])

(***************************************************************************)
(* The event loop.  discord.py runs every handler as a task of one asyncio *)
(* loop and the bot starts no thread that touches a season store: a task   *)
(* runs from one `await` on the gateway to its next one, and only there    *)
(* does another task run.  A handler is the sequence of its steps; `await  *)
(* _remove_ingested_data(...)` is no step "await", since that coroutine     *)
(* holds no await and so never yields.                                     *)
(***************************************************************************)
NoLoop == [tasks |-> <<>>, started |-> 0, overlap |-> FALSE]

\* UploadSeasonDropdown.callback: defer, json.loads, ensure_season_dir, the load
\* and the save of ingest_iracing_event, the copy, followup.send
CallbackProgram_await_in_ingest ==
    <<[op |-> "await", season |-> ""], [op |-> "parse", season |-> ""],
      [op |-> "ensure", season |-> ""], [op |-> "ingest_load", season |-> ""],
      [op |-> "await", season |-> ""],
      [op |-> "ingest_save", season |-> ""], [op |-> "copy", season |-> ""],
      [op |-> "await", season |-> ""]>>

CallbackProgram ==
    <<[op |-> "await", season |-> ""], [op |-> "parse", season |-> ""],
      [op |-> "ensure", season |-> ""], [op |-> "ingest_load", season |-> ""],
      [op |-> "ingest_save", season |-> ""], [op |-> "copy", season |-> ""],
      [op |-> "await", season |-> ""]>>

\* DeleteConfirmView.confirm_delete on one file: defer, the read of the file, the
\* loop of _remove_ingested_data over list_seasons(), os.remove, followup.send
ConfirmProgram ==
    <<[op |-> "await", season |-> ""], [op |-> "read", season |-> ""],
      [op |-> "list", season |-> ""], [op |-> "remove", season |-> ""],
      [op |-> "await", season |-> ""]>>

\* drivers_cmd: the task starts, load_season_drivers, send_message
DriversProgram ==
    <<[op |-> "await", season |-> ""], [op |-> "observe", season |-> ""],
      [op |-> "await", season |-> ""]>>

\* the iterations of `for season in list_seasons()`: a load and, when the season
\* was modified, a save
RECURSIVE SeasonOps(_, _)
SeasonOps(order, i) ==
    IF i > Len(order) THEN <<>>
    ELSE <<[op |-> "reverse_load", season |-> order[i]],
           [op |-> "reverse_save", season |-> order[i]]>> \o SeasonOps(order, i + 1)

\* a task loads season s: another task holds it loaded and not yet saved when s
\* is in w.held
LoadOp(w, s, rest) ==
    [w EXCEPT !.overlap = w.overlap \/ s \in w.held,
              !.task.open = w.task.open \cup {s},
              !.task.touched = w.task.touched \cup {s},
              !.task.snap = [x \in DOMAIN w.task.snap \cup {s} |->
                               IF x = s THEN w.st[s] ELSE w.task.snap[x]],
              !.task.todo = rest]

\* the exception handler of a handler: nothing is left but the message
Raise(w) ==
    [w EXCEPT !.task.todo = <<[op |-> "await", season |-> ""]>>, !.task.open = {}]

\* the stores as the task sees them: season s as it loaded it
Seen(w, s) == [w.st EXCEPT ![s] = w.task.snap[s]]

\* one step o of the task of w, the steps after it being rest
ExecOp(w, o, rest) ==
    CASE o.op = "parse" ->
           IF w.task.content.parsable THEN [w EXCEPT !.task.todo = rest] ELSE Raise(w)
      [] o.op = "ensure" ->
           [w EXCEPT !.st = ensure_season_dir(w.st, w.task.season), !.task.todo = rest]
      [] o.op = "ingest_load" ->
           IF \/ SessionsNamed(w.task.content, "RACE") = <<>>
              \/ LoadRaises(w.st, w.task.season)
           THEN Raise(w)
           ELSE LoadOp(w, w.task.season, rest)
      [] o.op = "ingest_save" ->
           IF ingest_iracing_event(w.task.content, Seen(w, w.task.season),
                                   w.task.season, "none").raised
           THEN Raise(w)
           ELSE [w EXCEPT
                   !.st[w.task.season] =
                      ingest_iracing_event(w.task.content, Seen(w, w.task.season),
                                           w.task.season, "none").st[w.task.season],
                   !.task.open = w.task.open \ {w.task.season},
                   !.task.todo = rest]
      [] o.op = "copy" ->
           [w EXCEPT !.up = [f \in DOMAIN w.up \cup {out_name(w.t, w.task.filename)} |->
                               IF f = out_name(w.t, w.task.filename)
                               THEN w.task.content ELSE w.up[f]],
                     !.copied = TRUE,
                     !.task.todo = rest]
      [] o.op = "read" ->
           IF w.task.file \in DOMAIN w.up
           THEN [w EXCEPT !.task.content = w.up[w.task.file], !.task.todo = rest]
           ELSE Raise(w)
      [] o.op = "list" ->
           IF \/ ~w.task.content.parsable
              \/ SessionsNamed(w.task.content, "RACE") = <<>>
              \/ RaceResults(w.task.content) = <<>>
              \/ DOMAIN DeletedRaces(RaceResults(w.task.content)) = {}
           THEN [w EXCEPT !.task.todo = rest]
           ELSE [w EXCEPT !.task.todo = SeasonOps(SortedSeasons(w.st), 1) \o rest]
      [] o.op = "reverse_load" ->
           IF w.st[o.season].file # "ok"
           THEN [w EXCEPT !.task.todo = Tail(rest)]
           ELSE LoadOp(w, o.season, rest)
      [] o.op = "reverse_save" ->
           [w EXCEPT
              !.st[o.season] =
                 IF ReverseSaves(DeletedRaces(RaceResults(w.task.content)),
                                 Seen(w, o.season), o.season)
                 THEN ReverseSeason(DeletedRaces(RaceResults(w.task.content)),
                                    Seen(w, o.season), o.season)
                 ELSE w.st[o.season],
              !.task.open = w.task.open \ {o.season},
              !.task.todo = rest]
      [] o.op = "remove" ->
           [w EXCEPT !.up = [g \in DOMAIN w.up \ {w.task.file} |-> w.up[g]],
                     !.task.todo = rest]
      [] o.op = "observe" ->
           [w EXCEPT !.overlap = w.overlap \/ w.task.season \in w.held,
                     !.task.touched = w.task.touched \cup {w.task.season},
                     !.task.todo = rest]

\* the task of w runs to its next await, or to its end
RECURSIVE RunSegment(_)
RunSegment(w) ==
    IF w.task.todo = <<>> \/ Head(w.task.todo).op = "await" THEN w
    ELSE RunSegment(ExecOp(w, Head(w.task.todo), Tail(w.task.todo)))

\* task i was run to w: the loop takes it back, and forgets a task that ended
Suspend(i, w) ==
    /\ seasons' = w.st
    /\ uploads' = w.up
    /\ now' = IF w.copied THEN w.t ELSE now
    /\ loop' = [loop EXCEPT
                  !.tasks = IF w.task.todo = <<>>
                            THEN SubSeq(loop.tasks, 1, i - 1)
                                 \o SubSeq(loop.tasks, i + 1, Len(loop.tasks))
                            ELSE [loop.tasks EXCEPT ![i] = w.task],
                  !.overlap = w.overlap]
    /\ UNCHANGED <<views, event, applied, pre, hist, ningest, config, bot, backups, clock>>

\* the loop resumes the task i that waits at an await
Resume(i) ==
    Suspend(i, RunSegment([st |-> seasons, up |-> uploads,
                           task |-> [loop.tasks[i] EXCEPT !.todo = Tail(loop.tasks[i].todo)],
                           overlap |-> loop.overlap,
                           held |-> UNION {loop.tasks[j].open :
                                             j \in DOMAIN loop.tasks \ {i}},
                           t |-> now + 1, copied |-> FALSE]))

\* the gateway dispatches a handler: a new task of the loop
Dispatch(kind, program, s, fn, c, f) ==
    /\ loop.started < MaxTasks
    /\ loop' = [loop EXCEPT
                  !.started = loop.started + 1,
                  !.tasks = Append(loop.tasks,
                                   [kind |-> kind, todo |-> program, season |-> s,
                                    filename |-> fn, content |-> c, file |-> f,
                                    open |-> {}, touched |-> {}, snap |-> NoStores])]
    /\ UNCHANGED <<seasons, uploads, views, now, event, applied, pre, hist, ningest, config, bot, backups, clock>>

(***************************************************************************)
(* The bot with two seasons created by /admin_season_create.               *)
(***************************************************************************)
Init ==
    /\ seasons = [s \in {"S1", "S2"} |-> NoFile]
    /\ uploads = [f \in {} |-> P_AB]
    /\ views = {}
    /\ now = 0
    /\ event = NoEvent
    /\ applied = {}
    /\ pre = NoPre
    /\ hist = <<>>
    /\ ningest = 0
    /\ loop = NoLoop
    /\ config = [current_season |-> "", discord_links |-> <<>>]
    /\ bot = NoBot
    /\ backups = NoBackups
    /\ clock = 0

\* the attachments the admins upload: a file name and its bytes
Attachments ==
    {<<[base |-> "race1", len |-> 10], P_AB>>, <<[base |-> "long", len |-> 104], P_AB>>,
     <<[base |-> "race2", len |-> 10], P_QUAL>>, <<[base |-> "race3", len |-> 10], P_DNF>>,
     <<[base |-> "race4", len |-> 10], P_DUP>>, <<[base |-> "race5", len |-> 10], P_ROWERR>>,
     <<[base |-> "race6", len |-> 10], P_NORACE>>, <<[base |-> "race7", len |-> 10], P_GARBAGE>>}

Upload == \E a \in Attachments : UploadCmd(a[1], a[2])

\* every callback runs in a second of its own
Callback ==
    \E v \in views : \E s \in v.options : UploadSeasonCallback(v, s, "none", now + 1)

CallbackFault ==
    \E v \in views, fault \in Faults \ {"none"} :
       \E s \in v.options : UploadSeasonCallback(v, s, fault, now + 1)

Delete == \E f \in DOMAIN uploads : ConfirmDelete(f)

Next == Upload \/ Callback \/ Delete

Spec == Init /\ [][Next]_vars

\* the upload path with the I/O failures of the callback, on fewer attachments
AttachmentsFault == {a \in Attachments : a[2] \in {P_AB, P_ROWERR, P_GARBAGE}}

UploadFault == \E a \in AttachmentsFault : UploadCmd(a[1], a[2])

NextFault == UploadFault \/ Callback \/ CallbackFault

SpecFault == Init /\ [][NextFault]_vars

\* the upload path alone: no reversal
NextIngest == Upload \/ Callback

SpecIngest == Init /\ [][NextIngest]_vars

\* the driver records of season s in the stores st, {} for a season without file
RecordsOf(st, s) == IF s \in DOMAIN st THEN st[s].drivers ELSE EmptyMap

\* field fld of driver n in a driver map, 0 for a driver it does not hold
Val(dm, n, fld) == IF n \in DOMAIN dm THEN dm[n][fld] ELSE 0

\* one driver's races ingested one at a time into season S1
Finishes == {1, 2, 3, 5}

RaceOfAlice ==
    \E f \in Finishes :
       /\ Len(hist) < MaxAvgRaces
       /\ IngestEvent(FinishPayload(f), "S1")
       /\ hist' = Append(hist, f)

NextAvg == RaceOfAlice

SpecAvg == Init /\ [][NextAvg]_vars

\* three seasons, the races of one pair of drivers, and the all-time table
InitCareer ==
    /\ seasons = [s \in {"S1", "S2", "S3"} |-> NoFile]
    /\ uploads = [f \in {} |-> P_AB]
    /\ views = {}
    /\ now = 0
    /\ event = NoEvent
    /\ applied = {}
    /\ pre = NoPre
    /\ hist = <<>>
    /\ ningest = 0
    /\ loop = NoLoop
    /\ config = [current_season |-> "", discord_links |-> <<>>]
    /\ bot = NoBot
    /\ backups = NoBackups
    /\ clock = 0

\* the league races its seasons one after the other: a race is ingested into the
\* last season raced so far, or into a later one
RaceOfPair ==
    \E c \in {P_R1, P_R2}, i \in 1..Len(SortedSeasons(seasons)) :
       /\ ningest < MaxCareerRaces
       /\ \A j \in (i + 1)..Len(SortedSeasons(seasons)) :
             seasons[SortedSeasons(seasons)[j]] = NoFile
       /\ Val(RecordsOf(seasons, SortedSeasons(seasons)[i]), "Alice", "races")
            < MaxSeasonRaces
       /\ IngestEvent(c, SortedSeasons(seasons)[i])
       /\ UNCHANGED hist

NextCareer == RaceOfPair \/ CareerQuery

SpecCareer == InitCareer /\ [][NextCareer]_vars

\* one season, the races of three drivers, and its leaderboards
RaceOfThree ==
    \E c \in {P_T1, P_T2, P_T3} :
       /\ ningest < MaxRankRaces
       /\ IngestEvent(c, "S1")
       /\ UNCHANGED hist

\* a leaderboard changes no store: the leaderboards shown after another one are
\* those shown before it, and each is taken once, right after the ingestion
LeaderboardQuery == event.op # "rank" /\ RankQuery

NextRank == RaceOfThree \/ LeaderboardQuery

SpecRank == Init /\ [][NextRank]_vars

\* the races of one season, each ingested once, in any order
OrderPayloads == {P_AB, P_QUAL, P_DNF, P_R2, P_NOFIN, P_TIE, P_NOLAP}

RaceInOrder ==
    \E c \in OrderPayloads :
       /\ Len(hist) < MaxOrderRaces
       /\ \A i \in 1..Len(hist) : hist[i] # c.id
       /\ IngestEvent(c, "S1")
       /\ hist' = Append(hist, c.id)

NextOrder == RaceInOrder

SpecOrder == Init /\ [][NextOrder]_vars

\* the handlers of one view, one stored file and one season run as tasks of the
\* event loop
AttachmentsLoop == {a \in Attachments : a[2] \in {P_AB, P_DNF} /\ a[1].len = 10}

UploadLoop == \E a \in AttachmentsLoop : UploadCmd(a[1], a[2])

DispatchCallback ==
    \E v \in views : \E s \in v.options :
       Dispatch("callback", CallbackProgram, s, v.filename, v.content,
                out_name(0, v.filename))

DispatchDelete ==
    \E f \in list_uploaded_jsons(uploads) :
       Dispatch("delete", ConfirmProgram, "", [base |-> "", len |-> 0], P_GARBAGE, f)

DispatchDrivers ==
    \E s \in list_seasons :
       Dispatch("drivers", DriversProgram, s, [base |-> "", len |-> 0], P_GARBAGE,
                out_name(0, [base |-> "", len |-> 0]))

ResumeTask == \E i \in DOMAIN loop.tasks : Resume(i)

NextLoop == UploadLoop \/ DispatchCallback \/ DispatchDelete \/ DispatchDrivers \/ ResumeTask

SpecLoop == Init /\ [][NextLoop]_vars

\* three seasons raced one after the other, the races kept in their order
FoldPayloads == {P_R1, P_R2, P_DNF}

RaceOfSeasons ==
    \E c \in FoldPayloads, i \in 1..Len(SortedSeasons(seasons)) :
       /\ Len(hist) < MaxFoldRaces
       /\ \A j \in (i + 1)..Len(SortedSeasons(seasons)) :
             seasons[SortedSeasons(seasons)[j]] = NoFile
       /\ IngestEvent(c, SortedSeasons(seasons)[i])
       /\ hist' = Append(hist, c.id)

NextFold == RaceOfSeasons

SpecFold == InitCareer /\ [][NextFold]_vars

\* the upload path, the deletions, the season commands and /admin_sync_all_data
\* the commands that change something: a season that does not exist yet is
\* created, another season is made the current one
CreateSeason == \E name \in {"S3"} \ list_seasons : SeasonCreate(name)

SetCurrent == \E s \in list_seasons \ {config.current_season} : SetCurrentSeason(s)

\* a report after a report that processed nothing shows the same stores
Sync == (event.op = "sync" => event.processed # {}) /\ SyncAllData

NextSync == UploadLoop \/ Callback \/ Delete \/ CreateSeason \/ SetCurrent \/ Sync

SpecSync == Init /\ [][NextSync]_vars

\* center-on-driver on stored seasons: the drivers of season S1 as
\* <<name, points, avg_finish in thousandths, wins>>, in the order the file lists
\* them
FindListings ==
    {<<>>,
     <<<<"Alice", 30, 1500, 0>>, <<"Al", 20, 2500, 1>>, <<"Bo", 10, 2500, 0>>>>,
     <<<<"A l", 30, 1000, 0>>, <<"Al", 20, 2000, 1>>>>,
     <<<<"Al1", 5, 4000, 0>>>>,
     <<<<"Bo Al", 9, 2000, 1>>, <<"Cy", 8, 1000, 0>>>>,
     <<<<"Cy", 70, 7000, 0>>, <<"Di", 60, 6000, 1>>, <<"Ed", 50, 5000, 0>>, <<"Bo", 40, 4000, 0>>,
       <<"Alice", 30, 3000, 0>>, <<"Bo Al", 20, 2000, 1>>, <<"Al", 10, 1000, 1>>>>}

\* the linked names looked for
FindTargets == {"al", " AL ", "al bo", "al2", "cy", "di", "ed", "zed"}

FindMetrics == {"points", "avg_finish", "wins_pct"}

MaxContext == 6

\* the record of a driver with one race
FindDriver(entry) ==
    [Rounded(NewDriver) EXCEPT !.races = 1, !.rp = 1, !.points = entry[2],
                               !.avg_finish = entry[3], !.wins = entry[4],
                               !.podiums = entry[4], !.top10s = entry[4],
                               !.laps_complete = 10,
                               !.race_distances = <<10>>]

RECURSIVE ListingNames(_)
ListingNames(l) == IF l = <<>> THEN <<>> ELSE <<Head(l)[1]>> \o ListingNames(Tail(l))

DatasetOf(l) ==
    [n \in {l[i][1] : i \in 1..Len(l)} |->
       FindDriver(l[CHOOSE i \in 1..Len(l) : l[i][1] = n])]

\* the orders in which the file of these drivers lists them: as written, or reversed
FindOrders(dm) ==
    {q \in {ListingNames(l) : l \in FindListings}
           \cup {Reversed(ListingNames(l)) : l \in FindListings} :
        {q[i] : i \in 1..Len(q)} = DOMAIN dm}

InitFind ==
    /\ \E l \in FindListings :
          seasons = [s \in {"S1", "S2"} |->
                       IF s = "S1" /\ l # <<>> THEN Stored(DatasetOf(l)) ELSE NoFile]
    /\ uploads = [f \in {} |-> P_AB]
    /\ views = {}
    /\ now = 0
    /\ event = NoEvent
    /\ applied = {}
    /\ pre = NoPre
    /\ hist = <<>>
    /\ ningest = 0
    /\ loop = NoLoop
    /\ config = [current_season |-> "", discord_links |-> <<>>]
    /\ bot = NoBot
    /\ backups = NoBackups
    /\ clock = 0

\* each operation changes no store and is taken once on each season
Around ==
    /\ event.op = "none"
    /\ \E metric \in FindMetrics, target \in FindTargets, context \in 0..MaxContext :
         \E order \in FindOrders(load_season_drivers(seasons, "S1")) :
            GetDriversAroundPosition(load_season_drivers(seasons, "S1"), order, metric,
                                     target, context)

FindMe ==
    /\ event.op = "none"
    /\ \E metric \in FindMetrics, target \in FindTargets :
         \E order \in FindOrders(load_season_drivers(seasons, "S1")) :
            FindMeCallback(load_season_drivers(seasons, "S1"), order, metric, target)

Refresh ==
    /\ event.op = "none"
    /\ \E metric \in FindMetrics, target \in FindTargets :
         \E order \in FindOrders(load_season_drivers(seasons, "S1")) :
            RefreshFindMe(load_season_drivers(seasons, "S1"), order, metric, target)

Initialize ==
    /\ event.op = "none"
    /\ \E metric \in FindMetrics :
         \E order \in FindOrders(load_season_drivers(seasons, "S1")) :
            \E p \in 0..(Len(order) - 1) :
               InitializeWithCenteredData(load_season_drivers(seasons, "S1"), order,
                                          metric, p)

Bottom ==
    /\ event.op = "none"
    /\ \E metric \in FindMetrics :
         \E order \in FindOrders(load_season_drivers(seasons, "S1")) :
            GoToBottom(load_season_drivers(seasons, "S1"), order, metric)

NextFind == Around \/ FindMe \/ Refresh \/ Initialize \/ Bottom

SpecFind == InitFind /\ [][NextFind]_vars

\* a leaderboard over fixed season stores: the listings of S1 and of S2
PageListings ==
    {<<<<"Cy", 70, 7000, 0>>, <<"Di", 60, 6000, 1>>, <<"Ed", 50, 5000, 0>>, <<"Bo", 40, 4000, 0>>,
       <<"Alice", 30, 3000, 0>>, <<"Bo Al", 20, 2000, 1>>, <<"Al", 10, 1000, 1>>>>,
     <<<<"Fay", 9, 2000, 1>>, <<"Gus", 8, 1000, 0>>, <<"Hal", 7, 3000, 0>>, <<"Ian", 6, 4000, 0>>>>,
     <<<<"A l", 30, 1000, 0>>, <<"Al", 20, 2000, 1>>>>,
     <<>>}

InitPage ==
    /\ \E l1, l2 \in PageListings :
          /\ l1 # <<>>
          /\ l1 # l2
          /\ seasons = [s \in {"S1", "S2"} |->
                          IF s = "S1" THEN Stored(DatasetOf(l1))
                          ELSE IF l2 = <<>> THEN NoFile ELSE Stored(DatasetOf(l2))]
    /\ uploads = [f \in {} |-> P_AB]
    /\ views = {}
    /\ now = 0
    /\ event = NoEvent
    /\ applied = {}
    /\ pre = NoPre
    /\ hist = <<>>
    /\ ningest = 0
    /\ loop = NoLoop
    /\ config = [current_season |-> "", discord_links |-> <<>>]
    /\ bot = NoBot
    /\ backups = NoBackups
    /\ clock = 0

\* the members who press Find Me are linked to these names
PageTargets == {"al", "cy", "ian", "zed"}

\* the LeaderboardViews among the views
Boards == {v \in views : v.kind = "leaderboard"}

Leaderboard == Boards = {} /\ LeaderboardCmd

Next5 == \E v \in Boards : NextPage(v)

Previous5 == \E v \in Boards : PreviousPage(v)

SelectSeason == \E v \in Boards : \E value \in v.options : SeasonSelect(v, value)

SelectMetric == \E v \in Boards : \E value \in FindMetrics : MetricSelect(v, value)

FindMeOnPage == \E v \in Boards : \E target \in PageTargets : FindMePage(v, target)

NextPageSpec == Leaderboard \/ Next5 \/ Previous5 \/ SelectSeason \/ SelectMetric \/ FindMeOnPage

SpecPage == InitPage /\ [][NextPageSpec]_vars

\* season administration next to the leaderboards: the season names that occur
AdminSeasons == {"S1", "S2"}

MaxOpenViews == 3

InitAdmin ==
    /\ seasons = [s \in {"S1", "S2"} |->
                    IF s = "S1"
                    THEN Stored(DatasetOf(<<<<"A l", 30, 1000, 0>>, <<"Al", 20, 2000, 1>>>>))
                    ELSE NoFile]
    /\ uploads = [f \in {} |-> P_AB]
    /\ views = {}
    /\ now = 0
    /\ event = NoEvent
    /\ applied = {}
    /\ pre = NoPre
    /\ hist = <<>>
    /\ ningest = 0
    /\ loop = NoLoop
    /\ config = [current_season |-> "", discord_links |-> <<>>]
    /\ bot = NoBot
    /\ backups = NoBackups
    /\ clock = 0

\* a command sends its view when no view of its kind is open
MayOpen(kind) == Cardinality(views) < MaxOpenViews /\ \A v \in views : v.kind # kind

AdminCreate == \E name \in AdminSeasons \ list_seasons : SeasonCreate(name)

AdminSetCmd == MayOpen("season_set") /\ season_set_current_cmd

AdminSet == \E v \in views : \E choice \in AdminSeasons \cup {"__NONE__"} : SeasonSetCallback(v, choice)

AdminDeleteCmd == MayOpen("season_delete") /\ season_delete_cmd

AdminDeleteSelect ==
    /\ \A v \in views : v.kind # "delete_confirm"
    /\ \E v \in views : \E season \in AdminSeasons : SeasonDeleteCallback(v, season)

AdminDeleteConfirm == \E v \in views : SeasonConfirmDelete(v)

AdminRenameCmd == MayOpen("season_rename") /\ season_rename_cmd

AdminRename == \E v \in views : \E old_name, new_name \in AdminSeasons : SeasonRename(v, old_name, new_name)

AdminLeaderboard == MayOpen("leaderboard") /\ LeaderboardCmd

NextAdmin ==
    \/ AdminCreate \/ AdminSetCmd \/ AdminSet \/ AdminDeleteCmd \/ AdminDeleteSelect
    \/ AdminDeleteConfirm \/ AdminRenameCmd \/ AdminRename \/ AdminLeaderboard
    \/ SelectSeason \/ SelectMetric

SpecAdmin == InitAdmin /\ [][NextAdmin]_vars

(***************************************************************************)
(* Vocabulary of the properties.                                           *)
(***************************************************************************)
PayloadOf(id) == CHOOSE c \in Payloads : c.id = id

\* no driver record of any season differs between the stores st and st2
SameRecords(st, st2) ==
    \A s \in DOMAIN st \cup DOMAIN st2 : RecordsOf(st, s) = RecordsOf(st2, s)

\* the labels that equal "RACE" when case is ignored
RaceLabels == {"RACE", "Race", "race", "rACE", "RaCe"}

\* the payload cannot be parsed or holds no session labelled RACE
Malformed(c) ==
    \/ ~c.parsable
    \/ \A i \in 1..Len(c.sessions) : c.sessions[i].simsession_name \notin RaceLabels

\* the rows of the payload's first RACE session that name driver n
RaceRowsOf(c) ==
    LET idx == {i \in 1..Len(c.sessions) : c.sessions[i].simsession_name \in RaceLabels}
        first == CHOOSE i \in idx : \A j \in idx : i <= j
    IN  IF ~c.parsable \/ idx = {} THEN <<>> ELSE c.sessions[first].results

TrimmedName(row) ==
    IF row.display_name \in {"Alice", "Alice "} THEN "Alice"
    ELSE IF row.display_name = "Bob" THEN "Bob" ELSE ""

RowsNaming(c, n) == {i \in 1..Len(RaceRowsOf(c)) : TrimmedName(RaceRowsOf(c)[i]) = n}

(***************************************************************************)
(* C1.  Idempotent duplicate rejection: /admin_upload of bytes of which a  *)
(* copy is stored (their first upload was ingested and stored) is refused  *)
(* as a duplicate, names a stored file with these bytes, and changes no    *)
(* season store.                                                           *)
(***************************************************************************)
C1_DuplicateRefused ==
    [][(/\ event'.op = "upload"
        /\ \E f \in DOMAIN uploads : uploads[f].id = event'.content
        /\ \E s \in DOMAIN seasons : <<event'.content, s>> \in applied)
       => /\ event'.result = "duplicate"
          /\ event'.existing \in DOMAIN uploads
          /\ uploads[event'.existing].id = event'.content
          /\ views' = views
          /\ seasons' = seasons]_vars

(***************************************************************************)
(* C2.  Ingestion of one payload is atomic: a callback that ends in an     *)
(* error leaves the season stores and the stored payloads as they were; a  *)
(* callback that succeeds has counted every named row and stored the copy. *)
(***************************************************************************)
C2_IngestionAtomic ==
    [][event'.op = "callback"
       => IF event'.result = "error"
          THEN seasons' = seasons /\ uploads' = uploads
          ELSE /\ \E f \in DOMAIN uploads' : uploads'[f].id = event'.content
               /\ \A n \in Names :
                    Val(RecordsOf(seasons', event'.season), n, "races")
                      = Val(RecordsOf(seasons, event'.season), n, "races")
                        + Cardinality(RowsNaming(PayloadOf(event'.content), n))]_vars

(***************************************************************************)
(* C3.  A payload that cannot be parsed, or that has no session labelled   *)
(* RACE in any letter case, is rejected with an error before any mutation: *)
(* no driver record of any season changes, no copy enters the uploads.     *)
(***************************************************************************)
C3_MalformedRejected ==
    [][(event'.op = "callback" /\ Malformed(PayloadOf(event'.content)))
       => /\ event'.result = "error"
          /\ SameRecords(seasons, seasons')
          /\ uploads' = uploads]_vars

\* a callback on a view holding a payload without RACE session has run and failed
C3_Witness ==
    /\ event.op = "callback"
    /\ event.content = P_NORACE.id
    /\ event.result = "error"

(***************************************************************************)
(* C4.  Counter invariant under ingestion: from empty season stores, after *)
(* any sequence of uploads every driver record has wins <= podiums <=      *)
(* top10s <= races, and laps_lead <= laps_complete when every ingested row *)
(* has laps_lead <= laps_complete.                                         *)
(***************************************************************************)
AppliedRowsLapsOk ==
    \A a \in applied :
       \A i \in 1..Len(RaceRowsOf(PayloadOf(a[1]))) :
          RaceRowsOf(PayloadOf(a[1]))[i].laps_lead
             <= RaceRowsOf(PayloadOf(a[1]))[i].laps_complete

C4_CounterInvariant ==
    \A s \in DOMAIN seasons : \A n \in DOMAIN RecordsOf(seasons, s) :
       /\ seasons[s].drivers[n].wins <= seasons[s].drivers[n].podiums
       /\ seasons[s].drivers[n].podiums <= seasons[s].drivers[n].top10s
       /\ seasons[s].drivers[n].top10s <= seasons[s].drivers[n].races
       /\ AppliedRowsLapsOk
            => seasons[s].drivers[n].laps_lead <= seasons[s].drivers[n].laps_complete

\* a driver of two ingested races: no win, one podium, two top-10 finishes, laps led
C4_Witness ==
    \E s \in DOMAIN seasons : \E n \in DOMAIN RecordsOf(seasons, s) :
       /\ seasons[s].drivers[n].races = 2
       /\ seasons[s].drivers[n].wins < seasons[s].drivers[n].podiums
       /\ seasons[s].drivers[n].podiums < seasons[s].drivers[n].top10s
       /\ seasons[s].drivers[n].laps_lead > 0

(***************************************************************************)
(* C5.  Weighted-average correctness: after the n races of `hist` were     *)
(* ingested one at a time into the empty season, the driver's avg_finish   *)
(* is the arithmetic mean of the n finishes rounded to 3 decimals.         *)
(***************************************************************************)
RECURSIVE Sum(_)
Sum(q) == IF q = <<>> THEN 0 ELSE Head(q) + Sum(Tail(q))

\* the mean of the integers of q in thousandths, rounded half to even
MeanRounded3(q) ==
    LET whole == (Sum(q) * 1000) \div Len(q)
        rest == (Sum(q) * 1000) % Len(q)
    IN  IF 2 * rest > Len(q) \/ (2 * rest = Len(q) /\ whole % 2 = 1) THEN whole + 1
        ELSE whole

C5_AvgFinishIsMean ==
    hist # <<>>
      => Val(RecordsOf(seasons, "S1"), "Alice", "avg_finish") = MeanRounded3(hist)

(***************************************************************************)
(* C6.  Reversal reduces the race count: when the payload of the last      *)
(* ingestion is reversed, a driver it named in one row has the race count  *)
(* held before the ingestion, and is gone from the season when that count  *)
(* is zero.                                                                *)
(***************************************************************************)
C6_ReversalRestoresRaces ==
    (event.op = "delete" /\ event.undo)
      => \A n \in Names :
            Cardinality(RowsNaming(PayloadOf(event.content), n)) = 1
              => IF Val(RecordsOf(event.before, event.season), n, "races") = 0
                 THEN n \notin DOMAIN RecordsOf(seasons, event.season)
                 ELSE /\ n \in DOMAIN RecordsOf(seasons, event.season)
                      /\ Val(RecordsOf(seasons, event.season), n, "races")
                           = Val(RecordsOf(event.before, event.season), n, "races")

(***************************************************************************)
(* C7.  Reversal undoes the counters ingestion incremented: when the       *)
(* payload of the last ingestion is reversed, wins, podiums, top10s, poles *)
(* and points of every driver of the season are what they were before the  *)
(* ingestion.                                                              *)
(***************************************************************************)
C7_ReversalUndoesCounters ==
    (event.op = "delete" /\ event.undo)
      => \A n \in Names : \A fld \in {"wins", "podiums", "top10s", "poles", "points"} :
            Val(RecordsOf(seasons, event.season), n, fld)
              = Val(RecordsOf(event.before, event.season), n, fld)

(***************************************************************************)
(* C8.  Reversal touches only the seasons the payload was applied to: the  *)
(* store of a season into which the reversed payload was never ingested is *)
(* unchanged, and every season whose store changed is in the returned      *)
(* list.                                                                   *)
(***************************************************************************)
C8_ReversalFrame ==
    [][event'.op = "delete"
       => /\ \A s \in DOMAIN seasons :
               <<event'.content, s>> \notin applied => seasons'[s] = seasons[s]
          /\ \A s \in DOMAIN seasons :
               seasons'[s] # seasons[s] => s \in event'.affected]_vars

(***************************************************************************)
(* C9.  Career fold order-independence: folding the seasons in any order   *)
(* yields the career avg_finish, avg_start and avg_incidents of every      *)
(* driver that _aggregate_career returned.                                 *)
(***************************************************************************)
SeasonOrders(st) ==
    {p \in [1..Cardinality(DOMAIN st) -> DOMAIN st] : \A s \in DOMAIN st : \E i \in DOMAIN p : p[i] = s}

C9_FoldOrderIndependent ==
    event.op = "career"
      => \A p \in SeasonOrders(seasons) :
            LET other == AggregateInOrder(seasons, p)
            IN  \A n \in DOMAIN event.career :
                   /\ other[n].avg_finish = event.career[n].avg_finish
                   /\ other[n].avg_start = event.career[n].avg_start
                   /\ other[n].avg_incidents = event.career[n].avg_incidents

(***************************************************************************)
(* C10.  Career counters are pure sums: for every driver of any season,    *)
(* races, wins, podiums, top10s, poles, fastest_laps, laps_complete,       *)
(* laps_lead, points and position_change of the career record are the sums *)
(* of the field over the seasons holding the driver, and its               *)
(* race_distances are the seasons' race_distances one after the other.     *)
(***************************************************************************)
RECURSIVE FieldSum(_, _, _, _)
FieldSum(st, order, n, fld) ==
    IF order = <<>> THEN 0
    ELSE Val(RecordsOf(st, Head(order)), n, fld) + FieldSum(st, Tail(order), n, fld)

RECURSIVE Distances(_, _, _)
Distances(st, order, n) ==
    IF order = <<>> THEN <<>>
    ELSE (IF n \in DOMAIN RecordsOf(st, Head(order))
          THEN RecordsOf(st, Head(order))[n].race_distances ELSE <<>>)
         \o Distances(st, Tail(order), n)

C10_CareerCountersAreSums ==
    event.op = "career"
      => /\ DOMAIN event.career = UNION {DOMAIN RecordsOf(seasons, s) : s \in DOMAIN seasons}
         /\ \A n \in DOMAIN event.career :
               /\ \A fld \in {"races", "wins", "podiums", "top10s", "poles", "fastest_laps",
                              "laps_complete", "laps_lead", "points", "position_change"} :
                     event.career[n][fld] = FieldSum(seasons, SortedSeasons(seasons), n, fld)
               /\ event.career[n].race_distances
                    = Distances(seasons, SortedSeasons(seasons), n)

\* the all-time table of a driver who scored points in three seasons
C10_Witness ==
    /\ event.op = "career"
    /\ \A s \in DOMAIN seasons : Val(RecordsOf(seasons, s), "Alice", "points") > 0
    /\ "Alice" \in DOMAIN event.career
    /\ Len(event.career["Alice"].race_distances) >= 4

(***************************************************************************)
(* C11.  Ranking directionality: a leaderboard by avg_start, avg_finish or *)
(* avg_incidents lists its rows in non-decreasing order of that metric,    *)
(* and a leaderboard by any other metric in non-increasing order.          *)
(***************************************************************************)
C11_RankingDirection ==
    event.op = "rank"
      => \A i, j \in 1..Len(event.rows) :
            i < j => IF event.metric \in {"avg_start", "avg_finish", "avg_incidents"}
                     THEN event.rows[i][event.metric] <= event.rows[j][event.metric]
                     ELSE event.rows[i][event.metric] >= event.rows[j][event.metric]

\* a leaderboard by avg_finish of three drivers with three different averages
C11_Witness ==
    /\ event.op = "rank"
    /\ event.metric = "avg_finish"
    /\ Len(event.rows) = 3
    /\ event.rows[1].avg_finish < event.rows[2].avg_finish
    /\ event.rows[2].avg_finish < event.rows[3].avg_finish

(***************************************************************************)
(* C12.  Per-row counter rule: an ingestion that succeeds adds, for every  *)
(* row with a non-empty driver name, 1 to the driver's races, 1 to wins    *)
(* iff the one-based finish is 1, to podiums iff it is <= 3, to top10s iff *)
(* it is <= 10, to poles iff the one-based start is 1, and champ_points to *)
(* points; the counters of no other driver and of no other season change.  *)
(***************************************************************************)
\* the one-based finish of a row, 0 when it has none
FinishOf(row) == IF row.finish_position >= 0 THEN row.finish_position + 1 ELSE 0

\* the rows of the payload's first QUALIFY session
QualRowsOf(c) ==
    LET idx == {i \in 1..Len(c.sessions) :
                  c.sessions[i].simsession_name \in {"QUALIFY", "Qualify"}}
    IN  IF idx = {} THEN <<>>
        ELSE c.sessions[CHOOSE i \in idx : \A j \in idx : i <= j].results

\* the one-based start of a row of payload c: its starting position, else the
\* driver's qualifying finish, else finish + 5; 0 when there is none
StartOf(c, row) ==
    LET q == {i \in 1..Len(QualRowsOf(c)) :
                /\ TrimmedName(QualRowsOf(c)[i]) = TrimmedName(row)
                /\ QualRowsOf(c)[i].finish_position >= 0}
    IN  IF row.starting_position >= 0 THEN row.starting_position + 1
        ELSE IF q # {} THEN QualRowsOf(c)[CHOOSE i \in q : \A j \in q : j <= i].finish_position + 1
        ELSE IF FinishOf(row) > 0 THEN FinishOf(row) + 5 ELSE 0

\* what the rows of payload c add to field fld of driver n
RECURSIVE RowsAdd(_, _, _, _)
RowsAdd(c, n, fld, i) ==
    IF i > Len(RaceRowsOf(c)) THEN 0
    ELSE RowsAdd(c, n, fld, i + 1)
         + (IF TrimmedName(RaceRowsOf(c)[i]) # n THEN 0
            ELSE CASE fld = "races" -> 1
                   [] fld = "wins" -> IF FinishOf(RaceRowsOf(c)[i]) = 1 THEN 1 ELSE 0
                   [] fld = "podiums" -> IF FinishOf(RaceRowsOf(c)[i]) \in 1..3 THEN 1 ELSE 0
                   [] fld = "top10s" -> IF FinishOf(RaceRowsOf(c)[i]) \in 1..10 THEN 1 ELSE 0
                   [] fld = "poles" -> IF StartOf(c, RaceRowsOf(c)[i]) = 1 THEN 1 ELSE 0
                   [] fld = "points" -> RaceRowsOf(c)[i].champ_points)

C12_PerRowCounters ==
    [][(event'.op = "callback" /\ event'.result = "complete")
       => \A s \in DOMAIN seasons' : \A n \in Names :
             \A fld \in {"races", "wins", "podiums", "top10s", "poles", "points"} :
                Val(RecordsOf(seasons', s), n, fld)
                  = Val(RecordsOf(seasons, s), n, fld)
                    + (IF s = event'.season
                       THEN RowsAdd(PayloadOf(event'.content), n, fld, 1) ELSE 0)]_vars

\* the scenario of the specification: Alice wins from second, Bob is second from pole
C12_Witness ==
    /\ event.op = "callback" /\ event.result = "complete" /\ event.content = P_AB.id
    /\ \E s \in DOMAIN seasons :
          /\ "Alice" \in DOMAIN RecordsOf(seasons, s) /\ "Bob" \in DOMAIN RecordsOf(seasons, s)
          /\ seasons[s].drivers["Alice"].races = 1 /\ seasons[s].drivers["Alice"].wins = 1
          /\ seasons[s].drivers["Alice"].podiums = 1 /\ seasons[s].drivers["Alice"].poles = 0
          /\ seasons[s].drivers["Alice"].points = 25
          /\ seasons[s].drivers["Bob"].races = 1 /\ seasons[s].drivers["Bob"].wins = 0
          /\ seasons[s].drivers["Bob"].podiums = 1 /\ seasons[s].drivers["Bob"].poles = 1
          /\ seasons[s].drivers["Bob"].points = 18

(***************************************************************************)
(* C13.  Duplicate refusal under interleaving: over every interleaving of  *)
(* /admin_upload commands with the same bytes and of their season-select   *)
(* callbacks, a callback never ingests a payload whose rows have been      *)
(* applied to a season store already.                                      *)
(***************************************************************************)
C13_AppliedAtMostOnce ==
    [][(event'.op = "callback" /\ \E s \in DOMAIN seasons : <<event'.content, s>> \in applied)
       => event'.result = "error" /\ seasons' = seasons]_vars

(***************************************************************************)
(* C14  Per-season mutual exclusion: whatever the interleaving of the      *)
(* ingestion callbacks, the delete callbacks and the queries in flight, no *)
(* ingestion or reversal loads a season store that another one has loaded  *)
(* and not yet saved, and no query reads a store between the load and the  *)
(* save of another handler.                                                *)
(***************************************************************************)
C14_SeasonMutualExclusion == ~loop.overlap

\* an ingestion and a reversal of season S1 in flight at once, each past its
\* access to the store and waiting to send its message
C14_Witness ==
    \E i, j \in DOMAIN loop.tasks :
       /\ loop.tasks[i].kind = "callback" /\ loop.tasks[j].kind = "delete"
       /\ \A x \in {i, j} : /\ "S1" \in loop.tasks[x].touched
                             /\ Len(loop.tasks[x].todo) = 1
       /\ seasons["S1"].file = "ok"

(***************************************************************************)
(* C15  Storage failure safety: a write of a season store that fails or is *)
(* interrupted leaves the store as it was before the write; a store that   *)
(* changes is never left empty, truncated or partially written, so what is *)
(* read after any step is the old mapping or a complete new one.           *)
(***************************************************************************)
C15_StorageFailureSafe ==
    [][\A s \in DOMAIN seasons :
          seasons'[s] # seasons[s] => /\ seasons'[s].file = "ok"
                                      /\ ~LoadRaises(seasons', s)]_vars

(***************************************************************************)
(* C16  Counter invariant under reversal: after any sequence of ingestions *)
(* and reversals over the seasons, every driver record of every season has *)
(* wins <= podiums <= top10s <= races.                                     *)
(***************************************************************************)
C16_CountersUnderReversal ==
    \A s \in DOMAIN seasons : \A n \in DOMAIN RecordsOf(seasons, s) :
       /\ RecordsOf(seasons, s)[n].wins <= RecordsOf(seasons, s)[n].podiums
       /\ RecordsOf(seasons, s)[n].podiums <= RecordsOf(seasons, s)[n].top10s
       /\ RecordsOf(seasons, s)[n].top10s <= RecordsOf(seasons, s)[n].races

(***************************************************************************)
(* C17  Race-distance bookkeeping: starting from empty stores, after any   *)
(* sequence of ingestions and reversals every driver record holds as many  *)
(* race distances as it counts races.                                      *)
(***************************************************************************)
C17_DistancePerRace ==
    \A s \in DOMAIN seasons : \A n \in DOMAIN RecordsOf(seasons, s) :
       Len(RecordsOf(seasons, s)[n].race_distances) = RecordsOf(seasons, s)[n].races

(***************************************************************************)
(* C18  A stored payload is destroyed only after its reversal was applied: *)
(* when the file deleted holds the payload of the last ingestion, whose    *)
(* rows are in the records of the season it went into, the deletion has    *)
(* reversed and saved that season, so that the payload is never gone while *)
(* its contribution is still in the season store.                          *)
(***************************************************************************)
C18_RemovedAfterReversal ==
    [][(/\ event'.op = "delete"
        /\ event'.undo
        /\ RecordsOf(seasons, event'.season) # RecordsOf(event'.before, event'.season))
       => event'.season \in event'.affected]_vars

(***************************************************************************)
(* C19  The running weight counts only the races that contribute: for a    *)
(* driver whose races include rows without valid finish or without start,  *)
(* avg_finish is the mean of the finishes that were present and avg_start  *)
(* the mean of the starts that were derived, each to 3 decimals.           *)
(***************************************************************************)
\* the one-based finishes ("finish") or starts ("start") that the rows of payload
\* c from row j on hold for driver n
RECURSIVE RowValues(_, _, _, _)
RowValues(c, n, kind, j) ==
    IF j > Len(RaceRowsOf(c)) THEN <<>>
    ELSE (IF TrimmedName(RaceRowsOf(c)[j]) # n THEN <<>>
          ELSE IF kind = "finish" /\ FinishOf(RaceRowsOf(c)[j]) > 0
          THEN <<FinishOf(RaceRowsOf(c)[j])>>
          ELSE IF kind = "start" /\ StartOf(c, RaceRowsOf(c)[j]) > 0
          THEN <<StartOf(c, RaceRowsOf(c)[j])>>
          ELSE <<>>)
         \o RowValues(c, n, kind, j + 1)

\* those of the payloads ids[i], ids[i + 1], ...
RECURSIVE ValuesOf(_, _, _, _)
ValuesOf(ids, n, kind, i) ==
    IF i > Len(ids) THEN <<>>
    ELSE RowValues(PayloadOf(ids[i]), n, kind, 1) \o ValuesOf(ids, n, kind, i + 1)

C19_WeightIsContributingRaces ==
    \A n \in Names :
       /\ ValuesOf(hist, n, "finish", 1) # <<>>
            => Val(RecordsOf(seasons, "S1"), n, "avg_finish")
                 = MeanRounded3(ValuesOf(hist, n, "finish", 1))
       /\ ValuesOf(hist, n, "start", 1) # <<>>
            => Val(RecordsOf(seasons, "S1"), n, "avg_start")
                 = MeanRounded3(ValuesOf(hist, n, "start", 1))

(***************************************************************************)
(* C20  Ingestion is independent of the order: the payloads ingested into  *)
(* the empty season give, in whatever order they are ingested, the driver  *)
(* records the season holds, rows without valid finish included.           *)
(***************************************************************************)
\* the orders in which the payloads ids can be ingested
OrdersOf(ids) ==
    {q \in [1..Len(ids) -> {ids[i] : i \in 1..Len(ids)}] :
        \A i, j \in 1..Len(ids) : q[i] = q[j] => i = j}

\* the stores after the payloads ids[i], ids[i + 1], ... went into S1 of st
RECURSIVE IngestAll(_, _, _)
IngestAll(st, ids, i) ==
    IF i > Len(ids) THEN st
    ELSE IngestAll(ingest_iracing_event(PayloadOf(ids[i]), st, "S1", "none").st, ids, i + 1)

\* the counters, the sums and the averages of a driver record
OrderFields ==
    {"races", "wins", "podiums", "top10s", "poles", "points", "laps_complete",
     "laps_lead", "fastest_laps", "position_change", "avg_incidents", "avg_start",
     "avg_finish"}

C20_IngestionOrderIndependent ==
    \A q \in OrdersOf(hist) : \A n \in Names, fld \in OrderFields :
       Val(RecordsOf(IngestAll([s \in DOMAIN seasons |-> NoFile], q, 1), "S1"), n, fld)
         = Val(RecordsOf(seasons, "S1"), n, fld)

(***************************************************************************)
(* C21  Running-weight consistency: after any sequence of ingestions and   *)
(* reversals every driver record has _rp = races, so that the next race    *)
(* enters each average with the weight 1 / (races + 1).                    *)
(***************************************************************************)
C21_WeightIsRaceCount ==
    \A s \in DOMAIN seasons : \A n \in DOMAIN RecordsOf(seasons, s) :
       RecordsOf(seasons, s)[n].rp = RecordsOf(seasons, s)[n].races

(***************************************************************************)
(* C22  Reversal handles rows without valid finish: when a stored payload  *)
(* is deleted, every season that holds one of its drivers with races to    *)
(* give back is reversed and saved, the race count of each such driver is  *)
(* one less, and no season is abandoned because a row raised an error.     *)
(***************************************************************************)
C22_ReversalCompletes ==
    [][event'.op = "delete"
       => \A s \in DOMAIN seasons : \A n \in Names :
             (/\ RowsNaming(PayloadOf(event'.content), n) # {}
              /\ Val(RecordsOf(seasons, s), n, "races") > 0)
             => /\ s \in event'.affected
                /\ Val(RecordsOf(seasons', s), n, "races")
                     = Val(RecordsOf(seasons, s), n, "races") - 1]_vars

(***************************************************************************)
(* C23  No double counting through sync: /admin_sync_all_data never applies *)
(* to a season a stored payload that was already applied to some season.   *)
(***************************************************************************)
C23_SyncAppliesNothingTwice ==
    [][event'.op = "sync"
       => \A c \in event'.processed :
             ~\E s \in DOMAIN seasons : <<c, s>> \in applied]_vars

(***************************************************************************)
(* C24  The career fold agrees with the Record Updater: for every driver   *)
(* the career avg_finish, avg_start and avg_incidents of _aggregate_career *)
(* are, up to the rounding to 2 and to 3 decimals, the averages one season *)
(* holds after all the races of all seasons were ingested into it.         *)
(***************************************************************************)
\* the records of one season that took the races of hist in their order
OneSeason == RecordsOf(IngestAll([s \in DOMAIN seasons |-> NoFile], hist, 1), "S1")

\* hundredths c and thousandths m that differ by the two roundings at most
WithinRounding(c, m) == 10 * c - m <= 5 /\ m - 10 * c <= 5

C24_CareerAgreesWithUpdater ==
    \A n \in DOMAIN _aggregate_career(seasons) :
       \A fld \in {"avg_finish", "avg_start", "avg_incidents"} :
          WithinRounding(_aggregate_career(seasons)[n][fld], Val(OneSeason, n, fld))

(***************************************************************************)
(* C25  Starting-position fallback order: the one-based start used for a   *)
(* row is starting_position + 1 when the row has one, otherwise the finish *)
(* + 1 of the driver's qualifying row, otherwise finish + 5 when the row   *)
(* has a valid finish, otherwise none: then no pole is counted and neither *)
(* avg_start nor position_change is updated.                               *)
(***************************************************************************)
\* the row of payload c that names driver n, for a payload naming n once
RowFor(c, n) == RaceRowsOf(c)[CHOOSE i \in RowsNaming(c, n) : TRUE]

\* avg_start (thousandths) after a start of e joined the stored average of d
StartJoined(d, e) == Round3(wavg(FloatOfDecimal(d.avg_start, 3), FloatOfInt(e), d.rp, 1))

FastestRows(c, n) ==
    {i \in RowsNaming(c, n) :
        /\ RaceRowsOf(c)[i].best_lap_time > 0
        /\ \A j \in 1..Len(RaceRowsOf(c)) :
              RaceRowsOf(c)[j].best_lap_time > 0
              => RaceRowsOf(c)[i].best_lap_time <= RaceRowsOf(c)[j].best_lap_time}

C26_FastestLapAttribution ==
    [][(event'.op = "ingest" /\ event'.result = "complete")
       => \A n \in Names :
             Val(RecordsOf(seasons', "S1"), n, "fastest_laps")
               = Val(RecordsOf(seasons, "S1"), n, "fastest_laps")
                 + Cardinality(FastestRows(PayloadOf(event'.content), n))]_vars

\* a race with two fastest drivers, a race without lap times and a race with one
\* fastest driver were ingested
C26_Witness ==
    /\ {"tie", "nolap", "dnf"} \subseteq {hist[i] : i \in 1..Len(hist)}
    /\ Val(RecordsOf(seasons, "S1"), "Alice", "fastest_laps") = 2
    /\ Val(RecordsOf(seasons, "S1"), "Bob", "fastest_laps") = 1

(***************************************************************************)
(* C27  Race distance: the value an ingested race appends to the           *)
(* race_distances of each driver it names is the maximum laps_complete     *)
(* across all rows of that race, whichever row finished first.             *)
(***************************************************************************)
\* the race_distances of driver n in a driver map, empty for a driver it does not hold
DistancesOf(dm, n) == IF n \in DOMAIN dm THEN dm[n].race_distances ELSE <<>>

C27_DistanceIsMaxLaps ==
    [][(event'.op = "ingest" /\ event'.result = "complete")
       => \A n \in Names :
             RowsNaming(PayloadOf(event'.content), n) # {}
             => DistancesOf(RecordsOf(seasons', "S1"), n)
                  = DistancesOf(RecordsOf(seasons, "S1"), n)
                    \o <<MaxLaps(RaceRowsOf(PayloadOf(event'.content)))>>]_vars

(***************************************************************************)
(* C28  Average reset on reversal: a reversal that brings a driver's race  *)
(* count to zero resets avg_incidents, avg_start and avg_finish to zero,   *)
(* and one that leaves the count positive leaves the averages as they were.*)
(***************************************************************************)
\* the stored averages, held in thousandths
Averages == {"avg_incidents", "avg_start", "avg_finish"}

C28_AveragesResetAtZero ==
    [][event'.op = "delete"
       => \A s \in DOMAIN seasons : \A n \in DOMAIN RecordsOf(seasons, s) :
             (n \in DOMAIN RecordsOf(seasons', s)
              /\ RecordsOf(seasons', s)[n].races < RecordsOf(seasons, s)[n].races)
             => \A fld \in Averages :
                   RecordsOf(seasons', s)[n][fld]
                     = IF RecordsOf(seasons', s)[n].races = 0 THEN 0
                       ELSE RecordsOf(seasons, s)[n][fld]]_vars

(***************************************************************************)
(* C29  Center-on-driver match order: whenever the ranking holds a driver  *)
(* whose name equals the target after trimming and case-folding, the       *)
(* located rank is that driver's rank, even if a driver ranked earlier     *)
(* matches the target otherwise; this holds for                            *)
(* get_drivers_around_position, FindMeButton.callback and refresh_find_me. *)
(***************************************************************************)
\* the indexes (from 0) of the rows of the ranking named like the target
ExactRanks(ranking, target) ==
    {i - 1 : i \in {j \in 1..Len(ranking) : Clean(ranking[j].name) = Clean(target)}}

C29_ExactMatchFirst ==
    (event.op \in {"around", "find_me", "refresh"}
     /\ ExactRanks(event.ranking, event.target) # {})
    => /\ event.located \in ExactRanks(event.ranking, event.target)
       /\ \A i \in ExactRanks(event.ranking, event.target) : event.located <= i

(***************************************************************************)
(* C30  Center-on-driver window: for every dataset, metric, context >= 0   *)
(* and target located at rank index p of n rows, the window returned or    *)
(* shown is a contiguous slice of the ranking within [0, n) that contains  *)
(* the located driver; it starts at rank 1 when p is within the top        *)
(* positions, and each row's global_position is its one-based rank.        *)
(***************************************************************************)
FindOps == {"around", "find_me", "refresh", "initialize"}

\* the located index is within the top positions of the operation
InTopPositions == IF event.op = "around" THEN event.located < event.context
                  ELSE event.located <= 2

C30_WindowAroundDriver ==
    (event.op \in FindOps /\ event.located # None)
    => /\ event.start >= 0
       /\ event.start + Len(event.rows) <= Len(event.ranking)
       /\ \A i \in 1..Len(event.rows) :
             /\ event.rows[i].name = event.ranking[event.start + i].name
             /\ "global_position" \in DOMAIN event.rows[i]
                => event.rows[i].global_position = event.start + i
       /\ event.located \in event.start..(event.start + Len(event.rows) - 1)
       /\ InTopPositions => event.start = 0

(***************************************************************************)
(* C31  Percentage metrics rank consistently in every view: for each       *)
(* percentage metric and every dataset, the rows shown by GoToBottomButton *)
(* and by get_drivers_around_position are the same drivers in the same     *)
(* order as the corresponding slice of the ranking of _rows_from_dataset.  *)
(***************************************************************************)
PercentageMetrics ==
    {"wins_pct", "podiums_pct", "top10s_pct", "poles_pct", "laps_complete_pct",
     "laps_lead_pct"}

RECURSIVE NamesOf(_)
NamesOf(rows) == IF rows = <<>> THEN <<>> ELSE <<Head(rows).name>> \o NamesOf(Tail(rows))

C31_PercentageRankingAgrees ==
    (event.op \in {"around", "bottom"} /\ event.metric \in PercentageMetrics
     /\ event.located # None)
    => NamesOf(event.rows)
        = NamesOf(SubSeq(_rows_from_dataset(load_season_drivers(seasons, "S1"),
                                            event.order, event.metric, None),
                         event.start + 1, event.start + Len(event.rows)))

(***************************************************************************)
(* C32  Tie order: rows with equal sort key for the chosen metric appear   *)
(* in the ranking of _rows_from_dataset in the insertion order of the      *)
(* driver-record mapping, for higher-is-better and lower-is-better metrics *)
(* alike.                                                                  *)
(***************************************************************************)
\* the place of name n in the order the mapping lists its drivers
ListedAt(order, n) == CHOOSE i \in 1..Len(order) : order[i] = n

RankedByRows == {"find_me", "refresh", "initialize"}

C32_TiesInInsertionOrder ==
    event.op \in RankedByRows
    => \A i, j \in 1..Len(event.ranking) :
          (i < j /\ event.ranking[i][event.metric] = event.ranking[j][event.metric])
          => ListedAt(event.order, event.ranking[i].name)
               < ListedAt(event.order, event.ranking[j].name)

\* a ranking by avg_finish of a mapping listed backwards, with two drivers on the
\* same average
C32_Witness ==
    /\ event.op = "find_me"
    /\ event.metric = "avg_finish"
    /\ event.order = <<"Bo", "Al", "Alice">>
    /\ NamesOf(event.ranking) = <<"Alice", "Bo", "Al">>

(***************************************************************************)
(* C33  Validation warnings are surfaced and non-fatal: whenever a driver  *)
(* record that violates wins <= podiums <= top10s <= races, laps_lead <=   *)
(* laps_complete or len(race_distances) = races is produced by ingestion   *)
(* or included in a career aggregation, a validation warning naming that   *)
(* driver is emitted and the operation still completes.                    *)
(***************************************************************************)
Unusual(d) ==
    \/ ~(d.wins <= d.podiums /\ d.podiums <= d.top10s /\ d.top10s <= d.races)
    \/ d.laps_lead > d.laps_complete
    \/ Len(d.race_distances) # d.races

C33_WarningsSurfaced ==
    [][/\ (event'.op = "callback" /\ event'.result = "complete")
          => \A n \in DOMAIN RecordsOf(seasons', event'.season) :
                (/\ RowsNaming(PayloadOf(event'.content), n) # {}
                 /\ Unusual(RecordsOf(seasons', event'.season)[n]))
                => n \in event'.warnings
       /\ event'.op = "career"
          => \A n \in DOMAIN event'.career :
                Unusual(event'.career[n]) => n \in event'.warnings]_vars

(***************************************************************************)
(* C34  Leaderboard page stays in range: over fixed season stores, after   *)
(* any sequence of Next, Previous, Find Me, season-select and metric-select*)
(* actions on a LeaderboardView, 0 <= current_page < total_pages of the    *)
(* selected dataset, so the page shown is non-empty whenever that dataset  *)
(* has a driver.                                                           *)
(***************************************************************************)
C34_PageInRange ==
    \A v \in views :
       /\ 0 <= v.current_page
       /\ v.current_page < PagesOf(seasons, v)
       /\ (event.op # "none" /\ DOMAIN _dataset(seasons, v) # {}) => event.rows # <<>>

(***************************************************************************)
(* C35  Queries never change the set of seasons: the read-only operations  *)
(* leave list_seasons() unchanged, so a season removed by confirm-delete   *)
(* stays absent until an admin creates it again, even when a view opened   *)
(* before the deletion is used afterwards.                                 *)
(***************************************************************************)
QueryOps ==
    {"leaderboard", "next", "previous", "season_select", "metric_select", "find_me_page",
     "career", "rank", "around", "find_me", "refresh", "initialize", "bottom"}

C35_QueriesKeepSeasons ==
    [][event'.op \in QueryOps => DOMAIN seasons' = DOMAIN seasons]_vars

(***************************************************************************)
(* C36  Current-season pointer is never dangling: across any interleaving  *)
(* of season create, set-current, rename, delete-select and delete-confirm *)
(* actions, the configured current season is unset or names an existing    *)
(* season; in particular the current season is never deleted.              *)
(***************************************************************************)
C36_CurrentSeasonExists ==
    config.current_season = "" \/ config.current_season \in DOMAIN seasons

(***************************************************************************)
(* Discord-iRacing links: link_account, unlink_account and admin_unlink.   *)
(* config["discord_links"] is a dict in insertion order from str(id) to    *)
(* the stored name; a name is the sequence of its characters.              *)
(***************************************************************************)
\* the keys of config["discord_links"]
LinkedIds(links) == {links[i].id : i \in 1..Len(links)}

\* get_iracing_name(discord_id): <<>> stands for None
get_iracing_name(links, discord_id) ==
    IF discord_id \in LinkedIds(links)
    THEN links[CHOOSE i \in 1..Len(links) : links[i].id = discord_id].name
    ELSE <<>>

\* get_discord_id compared on the raw characters, without strip().lower()
get_discord_id_case_sensitive(links, iracing_name) ==
    LET hits == {i \in 1..Len(links) :
                    \/ links[i].name = iracing_name
                    \/ NoSpaces(links[i].name) = NoSpaces(iracing_name)}
    IN IF hits = {} THEN ""
       ELSE links[CHOOSE i \in hits : \A j \in hits : i <= j].id

\* get_discord_id(iracing_name): the first linked id whose name matches, "" for None
get_discord_id(links, iracing_name) ==
    LET iracing_name_clean == lower(strip(iracing_name))
        Matches(name_clean) ==
            \/ name_clean = iracing_name_clean
            \/ NoSpaces(name_clean) = NoSpaces(iracing_name_clean)
            \/ IsIn(iracing_name_clean, name_clean)
            \/ IsIn(name_clean, iracing_name_clean)
        hits == {i \in 1..Len(links) : Matches(lower(strip(links[i].name)))}
    IN IF hits = {} THEN ""
       ELSE links[CHOOSE i \in hits : \A j \in hits : i <= j].id

\* link_discord_to_iracing: dict assignment, in place for a key already present
link_discord_to_iracing(links, discord_id, iracing_name) ==
    IF discord_id \in LinkedIds(links)
    THEN [i \in 1..Len(links) |->
             IF links[i].id = discord_id THEN [id |-> discord_id, name |-> iracing_name]
             ELSE links[i]]
    ELSE Append(links, [id |-> discord_id, name |-> iracing_name])

\* unlink_discord: del config["discord_links"][str(discord_id)]
unlink_discord(links, discord_id) == SelectSeq(links, LAMBDA l : l.id # discord_id)

\* the outcome of a command that leaves the configuration alone
LinkReply(op, user, result) ==
    /\ event' = [NoEvent EXCEPT !.op = op, !.target = user, !.result = result]
    /\ UNCHANGED <<seasons, uploads, views, now, applied, pre, hist, ningest, loop, config, bot, backups, clock>>

\* the outcome of a command that stores new links; save_config may raise after
\* the in-memory dict was changed
LinkStore(op, user, links, saved, done) ==
    /\ config' = [config EXCEPT !.discord_links = links]
    /\ event' = [NoEvent EXCEPT !.op = op, !.target = user,
                                !.result = IF saved THEN done ELSE "failed"]
    /\ UNCHANGED <<seasons, uploads, views, now, applied, pre, hist, ningest, loop, bot, backups, clock>>

\* link_account_cmd run by user with the typed name
link_account_cmd(user, allowed, typed, saved) ==
    LET iracing_name == strip(Chars(typed))
        links == config.discord_links
        existing_discord_id == get_discord_id(links, iracing_name)
        existing_link == get_iracing_name(links, user)
    IN CASE ~allowed -> LinkReply("link_account", user, "restricted")
         [] allowed /\ iracing_name = <<>> -> LinkReply("link_account", user, "no_name")
         [] allowed /\ iracing_name # <<>> /\ existing_discord_id \notin {"", user} ->
                LinkReply("link_account", user, "name_taken")
         [] allowed /\ iracing_name # <<>> /\ existing_discord_id \in {"", user}
                    /\ existing_link # <<>> ->
                LinkReply("link_account", user, "already_linked")
         [] OTHER -> LinkStore("link_account", user,
                               link_discord_to_iracing(links, user, iracing_name),
                               saved, "linked")

\* unlink_account_cmd run by user
unlink_account_cmd(user, allowed, saved) ==
    LET links == config.discord_links
    IN CASE ~allowed -> LinkReply("unlink_account", user, "restricted")
         [] allowed /\ user \notin LinkedIds(links) ->
                LinkReply("unlink_account", user, "no_link")
         [] OTHER -> LinkStore("unlink_account", user, unlink_discord(links, user),
                               saved, "unlinked")

\* admin_unlink_cmd run on discord_user by a member who is an admin or not
admin_unlink_cmd(discord_user, allowed, admin, saved) ==
    LET links == config.discord_links
    IN CASE ~allowed -> LinkReply("admin_unlink", discord_user, "restricted")
         [] allowed /\ ~admin -> LinkReply("admin_unlink", discord_user, "admins_only")
         [] allowed /\ admin /\ get_iracing_name(links, discord_user) = <<>> ->
                LinkReply("admin_unlink", discord_user, "no_link")
         [] OTHER -> LinkStore("admin_unlink", discord_user,
                               unlink_discord(links, discord_user), saved, "unlinked")

(***************************************************************************)
(* Account linking by three Discord users typing names that differ in      *)
(* case, surrounding whitespace and inner spaces.                          *)
(***************************************************************************)
LinkUsers == {"u1", "u2", "u3"}

TypedNames == {"Al", " AL ", "al", "A l", "Alice", "Bo", " Bo", "Cy", "  "}

InitLink ==
    /\ seasons = [s \in {} |-> NoFile]
    /\ uploads = [f \in {} |-> P_AB]
    /\ views = {}
    /\ now = 0
    /\ event = NoEvent
    /\ applied = {}
    /\ pre = NoPre
    /\ hist = <<>>
    /\ ningest = 0
    /\ loop = NoLoop
    /\ config = [current_season |-> "", discord_links |-> <<>>]
    /\ bot = NoBot
    /\ backups = NoBackups
    /\ clock = 0

LinkAccount ==
    \E user \in LinkUsers, allowed \in BOOLEAN, typed \in TypedNames, saved \in BOOLEAN :
        link_account_cmd(user, allowed, typed, saved)

UnlinkAccount ==
    \E user \in LinkUsers, allowed \in BOOLEAN, saved \in BOOLEAN :
        unlink_account_cmd(user, allowed, saved)

AdminUnlink ==
    \E discord_user \in LinkUsers, allowed \in BOOLEAN, admin \in BOOLEAN, saved \in BOOLEAN :
        admin_unlink_cmd(discord_user, allowed, admin, saved)

NextLink == LinkAccount \/ UnlinkAccount \/ AdminUnlink

SpecLink == InitLink /\ [][NextLink]_vars

(***************************************************************************)
(* C37  Link uniqueness: after any sequence of link_account,               *)
(* unlink_account and admin_unlink commands no two Discord users are       *)
(* linked to iRacing names that are equal ignoring case and surrounding    *)
(* whitespace, and link_account never overwrites a user's existing link:   *)
(* the name linked to a user changes only through an unlink.               *)
(***************************************************************************)
LinksDistinct ==
    \A i, j \in 1..Len(config.discord_links) :
        i # j => /\ config.discord_links[i].id # config.discord_links[j].id
                 /\ lower(strip(config.discord_links[i].name))
                        # lower(strip(config.discord_links[j].name))

LinkKept ==
    \A u \in LinkedIds(config.discord_links) :
        /\ event'.op = "link_account" =>
               get_iracing_name(config'.discord_links, u) = get_iracing_name(config.discord_links, u)
        /\ u \in LinkedIds(config'.discord_links) =>
               get_iracing_name(config'.discord_links, u) = get_iracing_name(config.discord_links, u)

C37_LinkUniqueness == [](LinksDistinct) /\ [][LinkKept]_vars

\* two users hold links, and a third command for a name differing only in case
\* and whitespace from a linked one has been turned away
C37_Witness ==
    /\ Len(config.discord_links) >= 2
    /\ event.op = "link_account"
    /\ event.result = "name_taken"

(***************************************************************************)
(* Backups and the client's events.  A backup file is its name (the second *)
(* stamped into backup_<stamp>.zip) and its modification time; the file    *)
(* .last_backup.txt holds the second of the last backup, -1 while absent.  *)
(***************************************************************************)
MAX_BACKUPS == 5

\* the days backup_due waits for since the last backup
DueDays == 7

\* the seconds of one day, scaled down
DAY == 2

\* the loops that on_ready at line 3700 starts
Tasks == {"auto_backup", "health_check", "cleanup_old_backups", "sync_commands_periodic"}

\* the functions decorated with @bot.event, in the order of the module
Handlers == <<"on_ready_3700", "on_ready_4880">>

\* bot.event(coro): setattr(bot, coro.__name__, coro), for the next decorated function
bot_event ==
    /\ bot.on_ready # Handlers[Len(Handlers)]
    /\ bot' = [bot EXCEPT !.on_ready = IF bot.on_ready = "" THEN Handlers[1] ELSE Handlers[2]]
    /\ event' = [NoEvent EXCEPT !.op = "bot_event", !.result = bot'.on_ready]
    /\ UNCHANGED <<seasons, uploads, views, now, applied, pre, hist, ningest, loop, config,
                   backups, clock>>

\* bot.run(TOKEN), then the gateway's ready event: the client calls bot.on_ready
on_ready ==
    /\ bot.on_ready = Handlers[Len(Handlers)]
    /\ bot' = [bot EXCEPT !.ready = TRUE,
                          !.started = IF bot.on_ready = "on_ready_3700" THEN Tasks ELSE @]
    /\ event' = [NoEvent EXCEPT !.op = "on_ready", !.result = bot.on_ready]
    /\ UNCHANGED <<seasons, uploads, views, now, applied, pre, hist, ningest, loop, config,
                   backups, clock>>

\* backup_due() at second t
backup_due(b, t) ==
    IF b.last_backup = -1 THEN TRUE ELSE (t - b.last_backup) \div DAY >= DueDays

\* save_backup_to_disk() at second t: fault "zip" raises before the zip file exists,
\* fault "state" raises on writing .last_backup.txt, after the zip file was written
save_backup_to_disk(b, t, fault) ==
    CASE fault = "zip" -> b
      [] fault = "state" ->
            [b EXCEPT !.files = {f \in @ : f.name # t} \cup {[name |-> t, mtime |-> t]}]
      [] OTHER ->
            [files |-> {f \in b.files : f.name # t} \cup {[name |-> t, mtime |-> t]},
             last_backup |-> t]

\* the outcome of an operation on the backups directory
BackupStep(op, result, b, removed, failed) ==
    /\ backups' = b
    /\ event' = [NoEvent EXCEPT !.op = op, !.result = result,
                                !.removed = removed, !.failed = failed]
    /\ UNCHANGED <<seasons, uploads, views, now, applied, pre, hist, ningest, loop, config,
                   bot, clock>>

\* backup_now: /admin_backup_now
backup_now(admin, fault) ==
    IF ~admin THEN BackupStep("backup_now", "admins_only", backups, {}, {})
    ELSE BackupStep("backup_now", IF fault = "none" THEN "saved" ELSE "failed",
                    save_backup_to_disk(backups, clock, fault), {}, {})

\* one iteration of the auto_backup loop
auto_backup(fault) ==
    IF ~backup_due(backups, clock) THEN BackupStep("auto_backup", "not_due", backups, {}, {})
    ELSE BackupStep("auto_backup", IF fault = "none" THEN "saved" ELSE "failed",
                    save_backup_to_disk(backups, clock, fault), {}, {})

\* backup_files[:n] after the sort by modification time, newest first
RECURSIVE files_to_remove_newest_first(_, _)
files_to_remove_newest_first(files, n) ==
    IF n <= 0 \/ files = {} THEN {}
    ELSE LET f == CHOOSE x \in files : \A y \in files :
                      x.mtime > y.mtime \/ (x.mtime = y.mtime /\ x.name >= y.name)
         IN {f} \cup files_to_remove_newest_first(files \ {f}, n - 1)

\* backup_files[:n] after backup_files.sort(key=lambda x: x[1]): the n oldest files
RECURSIVE files_to_remove(_, _)
files_to_remove(files, n) ==
    IF n <= 0 \/ files = {} THEN {}
    ELSE LET f == CHOOSE x \in files : \A y \in files :
                      x.mtime < y.mtime \/ (x.mtime = y.mtime /\ x.name <= y.name)
         IN {f} \cup files_to_remove(files \ {f}, n - 1)

\* one iteration of the cleanup_old_backups loop; os.remove raises for the files in failing
cleanup_old_backups(failing) ==
    LET backup_files == backups.files
        old == files_to_remove(backup_files, Cardinality(backup_files) - MAX_BACKUPS)
    IN IF Cardinality(backup_files) > MAX_BACKUPS
       THEN BackupStep("cleanup_old_backups", "cleaned",
                       [backups EXCEPT !.files = @ \ (old \ failing)],
                       old \ failing, old \cap failing)
       ELSE BackupStep("cleanup_old_backups", "no_cleanup", backups, {}, {})

\* a second passes
Tick(limit) ==
    /\ clock < limit
    /\ clock' = clock + 1
    /\ event' = NoEvent
    /\ UNCHANGED <<seasons, uploads, views, now, applied, pre, hist, ningest, loop, config,
                   bot, backups>>

BackupFaults == {"none", "zip", "state"}

(***************************************************************************)
(* The client from the load of the module on: the decorated handlers are   *)
(* registered, the gateway reports ready, time passes and an admin may run *)
(* /admin_backup_now.  The event loop runs a registration and a dispatched *)
(* ready event to completion, and the clock advances on its own.           *)
(***************************************************************************)
MaxReadyClock == 15

MaxReadyBackups == 2

InitReady ==
    /\ seasons = [s \in {} |-> NoFile]
    /\ uploads = [f \in {} |-> P_AB]
    /\ views = {}
    /\ now = 0
    /\ event = NoEvent
    /\ applied = {}
    /\ pre = NoPre
    /\ hist = <<>>
    /\ ningest = 0
    /\ loop = NoLoop
    /\ config = [current_season |-> "", discord_links |-> <<>>]
    /\ bot = NoBot
    /\ backups = NoBackups
    /\ clock = 0

ReadyTick == Tick(MaxReadyClock)

ReadyBackupNow ==
    /\ Cardinality(backups.files) < MaxReadyBackups
    /\ \E admin \in BOOLEAN, fault \in BackupFaults : backup_now(admin, fault)

NextReady == bot_event \/ on_ready \/ ReadyTick \/ ReadyBackupNow

SpecReady ==
    /\ InitReady /\ [][NextReady]_vars
    /\ WF_vars(bot_event) /\ WF_vars(on_ready) /\ WF_vars(ReadyTick)

(***************************************************************************)
(* C38  Background tasks start on ready: once the bot has reported ready,  *)
(* the loops auto_backup, health_check, cleanup_old_backups and            *)
(* sync_commands_periodic are started, and a backup that is due (none in   *)
(* the last 7 days) is eventually written.                                 *)
(***************************************************************************)
C38_TasksStartOnReady ==
    /\ [](bot.ready => Tasks \subseteq bot.started)
    /\ (bot.ready /\ backup_due(backups, clock)) ~> ~backup_due(backups, clock)

(***************************************************************************)
(* The backups directory under /admin_backup_now and the bodies of the     *)
(* loops auto_backup and cleanup_old_backups, one iteration at a time; an  *)
(* iteration has no await between listing the directory and removing.      *)
(***************************************************************************)
MaxCleanupClock == 7

MaxCleanupBackups == 7

CleanupTick == Tick(MaxCleanupClock)

CleanupBackupNow ==
    /\ Cardinality(backups.files) < MaxCleanupBackups
    /\ \E admin \in BOOLEAN, fault \in BackupFaults : backup_now(admin, fault)

AutoBackupIteration ==
    /\ Cardinality(backups.files) < MaxCleanupBackups
    /\ \E fault \in BackupFaults : auto_backup(fault)

CleanupIteration == \E failing \in SUBSET backups.files : cleanup_old_backups(failing)

NextCleanup == CleanupTick \/ CleanupBackupNow \/ AutoBackupIteration \/ CleanupIteration

SpecCleanup == InitReady /\ [][NextCleanup]_vars

(***************************************************************************)
(* C39  Backup retention: after a run of cleanup_old_backups in which no   *)
(* removal failed, at most MAX_BACKUPS zip files remain in the backups     *)
(* directory, and every removed file is older (by modification time) than  *)
(* every file that was kept.                                               *)
(***************************************************************************)
C39_BackupRetention ==
    (event.op = "cleanup_old_backups" /\ event.failed = {}) =>
        /\ Cardinality(backups.files) <= MAX_BACKUPS
        /\ \A r \in event.removed : \A k \in backups.files : r.mtime < k.mtime

\* a run that removed two files of seven, none failing
C39_Witness ==
    /\ event.op = "cleanup_old_backups"
    /\ event.failed = {}
    /\ Cardinality(event.removed) = 2
    /\ Cardinality(backups.files) = MAX_BACKUPS

====
